---------------------------- MODULE Spec2Model ----------------------------
(***************************************************************************)
(* A model of the persistent retrieval core of mycal: the vbyte and        *)
(* double-vbyte ("magic") codecs, the PostingList serialisation, the       *)
(* external sort, the LruCache, the InvertedFile, the OnDiskCompressedHash,*)
(* the map-reduce and the in-memory index builders, the Store, the         *)
(* classifier, the two scorers and the HTTP front-end.                     *)
(*                                                                         *)
(* Every subsystem has its own variables and its own specification; a      *)
(* specification keeps the variables of the other subsystems at rest.      *)
(***************************************************************************)
EXTENDS Integers, Sequences, FiniteSets, TLC

VARIABLES
    \* ---- codec harness (compress.rs, PostingList of index.rs)
    overflow_checks, \* TRUE: the build panics on arithmetic overflow (debug);
                     \* FALSE: it wraps (release)
    cpc,             \* position of the codec harness
    cin,             \* the input of the call under test
    cbuf,            \* the VecDeque<u8> the free functions write to and read from
    cenc,            \* what the encoder returned
    cdec,            \* what the decoder returned
    pl,              \* the PostingList under test (its postings)
    mbuf,            \* the MagicEncodedBuffer it is serialized into
    pl2              \* the PostingList that deserialize returned

codecVars == <<cpc, cin, cbuf, cenc, cdec, pl, mbuf, pl2>>

VARIABLES
    \* ---- external sort (extsort.rs)
    s_pc,            \* position in external_sort_from
    s_input,         \* the records of the input file
    s_bufsize,       \* buffer_size
    s_reader,        \* what input_reader has not yet read
    s_buffer,        \* divide_into_runs: buffer
    s_runs,          \* the run files, in the order of run_files.files
    s_items,         \* run_files.items
    s_files,         \* merge_runs: how many records were read from each run file
    s_heap,          \* merge_runs: the BinaryHeap's data vector
    s_out            \* what was written to output_writer

sortVars == <<s_pc, s_input, s_bufsize, s_reader, s_buffer, s_runs, s_items,
              s_files, s_heap, s_out>>

VARIABLES
    \* ---- LruCache on its own (lrucache.rs)
    lru_pc,          \* "run", "panicked", or "idle"
    lru,             \* the cache: capacity (0 is None), cache, order
    lru_clock,       \* operations done so far
    lru_used,        \* for each cached key, the time of its last use
    lru_last,        \* the last operation and the cache before it
    \* ---- InvertedFile opened for searching (index.rs)
    inv_pc,          \* "open", "panicked", or "idle"
    inv,             \* offsets, cache, cache_count, pl_gets, cache_hits
    inv_file,        \* the bytes of the inverted file
    inv_hist,        \* the tokids looked up since open
    inv_ret          \* the posting list the last lookup returned

VARIABLES
    \* ---- OnDiskCompressedHash (odch.rs)
    od_pc,           \* "built" (made by new), "opened" (made by open), "panicked", "idle"
    od,              \* map, idx, finalized
    od_disk,         \* the idx vector in the saved file, <<>> before any save
    od_saved,        \* a file was saved
    od_ids,          \* for each key, the id get_or_insert returned for it first
    od_last,         \* the last lookup and what it returned
    od_ops           \* operations done so far

odVars == <<od_pc, od, od_disk, od_saved, od_ids, od_last, od_ops>>

VARIABLES
    \* ---- the map-reduce build (bin/build_mapred.rs)
    b_pc,            \* position in build_index
    b_input,         \* the lines of the bundles: [docid, tokens]
    b_lines,         \* the lines not yet read
    b_vocab,         \* token_tokid_map
    b_docids,        \* docid_intid_map
    b_num_docs,      \* num_docs
    b_num_tuples,    \* num_tuples
    b_tuples,        \* the file "tuples"
    b_sorted,        \* the file "tuples_sorted"
    b_reader,        \* the tuples the current reader has not yet decoded
    b_pt,            \* pt
    b_current_intid, \* current_intid
    b_tuple_count,   \* tuple_count
    b_inv,           \* inverted_file
    b_inv_file,      \* the bytes of the file "inverted_file"
    b_off_file,      \* the offsets table in "inverted_file.off", <<>> if not written
    b_fv,            \* fv
    b_featfile,      \* the file "feature_vectors": the vectors written, in order
    b_fv_offsets,    \* offsets (step 4), written to "fv_offsets"
    b_df             \* df, written to "idf"

buildVars == <<b_pc, b_input, b_lines, b_vocab, b_docids, b_num_docs, b_num_tuples,
               b_tuples, b_sorted, b_reader, b_pt, b_current_intid, b_tuple_count,
               b_inv, b_inv_file, b_off_file, b_fv, b_featfile, b_fv_offsets, b_df>>

VARIABLES
    \* ---- Classifier (classifier.rs)
    cl_pc,           \* position in train_qrels / Classifier::train
    cl,              \* the model: w, scale
    cl_pos,          \* positives
    cl_neg,          \* negatives
    cl_ab,           \* the examples a, b chosen in this iteration
    cl_i,            \* i, the iteration
    cl_w0,           \* w when train was called
    cl_saved         \* the model file exists: a call of train_qrels has saved it

clVars == <<cl_pc, cl, cl_pos, cl_neg, cl_ab, cl_i, cl_w0, cl_saved>>

VARIABLES
    \* ---- the scorers (score_using_index of index.rs, score_collection of main.rs)
    sc_pc,           \* "start", "indexed", "done", "failed", "panicked", or "idle"
    sc_w,            \* the weights of the model loaded from the model file
    sc_n,            \* num_results
    sc_excl,         \* the extids to exclude
    sc_by,           \* the comparison of DocScore the MinMaxHeap is built with
    sc_index,        \* what score_using_index returned
    sc_full          \* what score_collection returned

scVars == <<sc_pc, sc_w, sc_n, sc_excl, sc_by, sc_index, sc_full>>

VARIABLES
    \* ---- the HTTP front-end (bin/webcal.rs)
    web_pc,          \* web_pc[r]: where the handler of request r stands
    web_kind,        \* web_kind[r]: "train" or "score"
    web_mutex        \* AppState.coll's Mutex: [holder, poisoned]; holder 0 is unlocked

webVars == <<web_pc, web_kind, web_mutex>>

VARIABLES
    \* ---- read errors met by the external sort
    s_fault          \* "none", or where a read failed: "input", "first_record", "run"

faultVars == <<s_fault>>

VARIABLES
    \* ---- the in-memory build (bin/build_index.rs)
    mi_pc,           \* "pass1", "pass2", "done", "panicked", or "idle"
    mi_input,        \* the lines of the bundles: [docid, tokens]
    mi_lines,        \* the lines not yet read
    mi_dict,         \* dict: [m, df, last_tokid]
    mi_docsdb,       \* docsdb: [ext2int, next_intid]
    mi_num_docs,     \* num_docs
    mi_inv,          \* invfile
    mi_featfile,     \* the feature vectors written
    mi_idf           \* new_dict.df, written to the .dct file

memVars == <<mi_pc, mi_input, mi_lines, mi_dict, mi_docsdb, mi_num_docs, mi_inv, mi_featfile,
             mi_idf>>

VARIABLES
    \* ---- a Store opened on the files of a build (store.rs)
    st_pc,           \* "open", "panicked", or "idle"
    st_config_file,  \* config.toml exists in the Store's directory
    st_config,       \* Store.config: [num_docs, num_features, pl_cache_size]
    st_fvfile,       \* Store.fvfile: <<>> for None, <<n>> for a reader with n vectors behind it
    st_docids,       \* Store.docids: <<>> for None, <<h>> for the docid map loaded
    st_vocab,        \* Store.vocab: <<>> for None, <<h>> for the vocabulary loaded
    st_hist,         \* the calls made, in order: [op, arg]
    st_ret           \* what the last call returned

storeVars == <<st_pc, st_config_file, st_config, st_fvfile, st_docids, st_vocab, st_hist, st_ret>>

queryVars == <<clVars, scVars, webVars, faultVars, memVars, storeVars>>

lruVars == <<lru_pc, lru, lru_clock, lru_used, lru_last>>

invVars == <<inv_pc, inv, inv_file, inv_hist, inv_ret>>

vars == <<overflow_checks, codecVars, sortVars, lruVars, invVars, odVars, buildVars,
         queryVars>>

-----------------------------------------------------------------------------
(***************************************************************************)
(* u32 arithmetic.  A u32 is the pair <<hi, lo>> of its two 16-bit halves  *)
(* (value = hi * 2^16 + lo), so that the whole range [0, 2^32) and the     *)
(* overflows at 2^32 are represented.                                      *)
(***************************************************************************)
Half == 256 * 256

\* the u32 of a small natural number
U(n) == <<n \div Half, n % Half>>

\* the natural number of a u32 below 2^31
N(u) == u[1] * Half + u[2]

ULt(a, b) == a[1] < b[1] \/ (a[1] = b[1] /\ a[2] < b[2])
ULe(a, b) == a = b \/ ULt(a, b)

\* a + b: the wrapped sum and whether it overflowed
UAdd(a, b) ==
    LET lo == a[2] + b[2]
        hi == a[1] + b[1] + (lo \div Half)
    IN  [v |-> <<hi % Half, lo % Half>>, ovf |-> hi >= Half]

\* a - b: the wrapped difference and whether it underflowed
USub(a, b) ==
    LET lo == Half + a[2] - b[2]
        hi == Half + a[1] - b[1] - (IF lo < Half THEN 1 ELSE 0)
    IN  [v |-> <<hi % Half, lo % Half>>, ovf |-> hi < Half]

\* a * m for a small m: the wrapped product and whether it overflowed
UMul(a, m) ==
    LET lo == a[2] * m
        hi == a[1] * m + (lo \div Half)
    IN  [v |-> <<hi % Half, lo % Half>>, ovf |-> hi >= Half]

\* a / m and a % m for a small m > 0
UDiv(a, m) ==
    LET r == (a[1] % m) * Half + a[2]
    IN  <<a[1] \div m, r \div m>>
UMod(a, m) == ((a[1] % m) * Half + a[2]) % m

\* With(e, LAMBDA x : body) is body with x bound to the value of e
With(v, F(_)) == F(v)

\* bitwise or of two naturals
RECURSIVE BitOrN(_, _)
BitOrN(a, b) ==
    IF a = 0 THEN b
    ELSE IF b = 0 THEN a
    ELSE (IF a % 2 = 1 \/ b % 2 = 1 THEN 1 ELSE 0) + 2 * BitOrN(a \div 2, b \div 2)

UOr(a, b) == <<BitOrN(a[1], b[1]), BitOrN(a[2], b[2])>>

RECURSIVE Pow2(_)
Pow2(k) == IF k = 0 THEN 1 ELSE 2 * Pow2(k - 1)

\* (x as u32) << shift for a 7-bit x and shift < 32, truncated to 32 bits
UShl7(x, shift) ==
    IF shift < 16
    THEN LET t == x * Pow2(shift) IN <<(t \div Half) % Half, t % Half>>
    ELSE <<(x * Pow2(shift - 16)) % Half, 0>>

\* value >> 7 and value & 0x7f
UShr7(a) == UDiv(a, 128)
UAnd7f(a) == a[2] % 128

-----------------------------------------------------------------------------
(***************************************************************************)
(* compress.rs: vbyte                                                      *)
(***************************************************************************)

vbyte_bytes_required_off(value) ==
    IF ULe(value, UShl7(1, 7)) THEN 1
    ELSE IF ULt(value, UShl7(1, 14)) THEN 2
    ELSE IF ULt(value, UShl7(1, 21)) THEN 3
    ELSE IF ULt(value, UShl7(1, 28)) THEN 4
    ELSE 5

\* Estimates how many bytes we need to encode a value
vbyte_bytes_required(value) ==
    IF ULt(value, UShl7(1, 7)) THEN 1
    ELSE IF ULt(value, UShl7(1, 14)) THEN 2
    ELSE IF ULt(value, UShl7(1, 21)) THEN 3
    ELSE IF ULt(value, UShl7(1, 28)) THEN 4
    ELSE 5

\* the while loop of vbyte_encode and of VbyteEncodedBuffer::write
RECURSIVE vbyte_encode_loop(_, _, _, _)
vbyte_encode_loop(write_byte, value, buffer, written) ==
    IF ULt(U(0), value)
    THEN vbyte_encode_loop(UAnd7f(value), UShr7(value),
                           Append(buffer, BitOrN(write_byte, 128)), written + 1)
    ELSE [buffer |-> Append(buffer, write_byte), written |-> written + 1]

\* Vbyte encodes value into buffer and returns the number of bytes written
vbyte_encode(value, buffer) ==
    vbyte_encode_loop(UAnd7f(value), UShr7(value), buffer, 0)

\* the loop of vbyte_decode: pop bytes until one has its MSB clear, or the
\* buffer is empty
RECURSIVE vbyte_decode_loop(_, _, _, _)
vbyte_decode_loop(buffer, value, shift, bytes_read) ==
    IF buffer = <<>>
    THEN [value |-> value, bytes_read |-> bytes_read, buffer |-> buffer]
    ELSE With(UOr(value, UShl7(Head(buffer) % 128, shift)), LAMBDA v :
           IF Head(buffer) < 128
           THEN [value |-> v, bytes_read |-> bytes_read + 1, buffer |-> Tail(buffer)]
           ELSE vbyte_decode_loop(Tail(buffer), v, shift + 7, bytes_read + 1))

vbyte_decode(buffer) == vbyte_decode_loop(buffer, U(0), 0, 0)

-----------------------------------------------------------------------------
(***************************************************************************)
(* compress.rs: the double-vbyte ("magic") codec.  An arithmetic overflow  *)
(* panics when the build checks overflows and wraps when it does not.      *)
(***************************************************************************)
MAGIC_F == 4

\* the magic value(s) of (docgap, freq): the values that are vbyte-encoded,
\* and whether computing them overflowed
magic_values_no_minus(docgap, freq) ==
    IF ULt(freq, U(MAGIC_F))
    THEN With(UMul(docgap, MAGIC_F), LAMBDA m :
         With(UAdd(m.v, freq), LAMBDA a :
           [values |-> <<a.v>>, ovf |-> m.ovf \/ a.ovf]))
    ELSE With(UMul(docgap, MAGIC_F), LAMBDA m :
         With(USub(freq, U(MAGIC_F)), LAMBDA d :
         With(UAdd(d.v, U(1)), LAMBDA a :
           [values |-> <<m.v, a.v>>, ovf |-> m.ovf \/ d.ovf \/ a.ovf])))

magic_values(docgap, freq) ==
    IF ULt(freq, U(MAGIC_F))
    THEN With(USub(docgap, U(1)), LAMBDA d :
         With(UMul(d.v, MAGIC_F), LAMBDA m :
         With(UAdd(m.v, freq), LAMBDA a :
           [values |-> <<a.v>>, ovf |-> d.ovf \/ m.ovf \/ a.ovf])))
    ELSE With(UMul(docgap, MAGIC_F), LAMBDA m :
         With(USub(freq, U(MAGIC_F)), LAMBDA d :
         With(UAdd(d.v, U(1)), LAMBDA a :
           [values |-> <<m.v, a.v>>, ovf |-> m.ovf \/ d.ovf \/ a.ovf])))

\* This is the "Double-VByte" encoder
encode_magic(docgap, freq, buffer) ==
    With(magic_values(docgap, freq), LAMBDA mv :
      IF mv.ovf /\ overflow_checks
      THEN [panic |-> TRUE, buffer |-> buffer, bytes |-> 0]
      ELSE With(vbyte_encode(mv.values[1], buffer), LAMBDA e1 :
        IF Len(mv.values) = 1
        THEN [panic |-> FALSE, buffer |-> e1.buffer, bytes |-> e1.written]
        ELSE With(vbyte_encode(mv.values[2], e1.buffer), LAMBDA e2 :
          [panic |-> FALSE, buffer |-> e2.buffer, bytes |-> e1.written + e2.written])))

\* what decode_magic and MagicEncodedBuffer::read make of the first decoded
\* value and, when it is a multiple of MAGIC_F, of the second
magic_split(decoded, second) ==
    IF UMod(decoded, MAGIC_F) > 0
    THEN [gap |-> UAdd(U(1), UDiv(decoded, MAGIC_F)).v,
          freq |-> U(UMod(decoded, MAGIC_F)), ovf |-> FALSE]
    ELSE With(UAdd(U(MAGIC_F), second), LAMBDA a :
         With(USub(a.v, U(1)), LAMBDA f :
           [gap |-> UDiv(decoded, MAGIC_F), freq |-> f.v, ovf |-> a.ovf \/ f.ovf]))

\* This is the "Double-VByte" decoder
decode_magic(buffer) ==
    With(vbyte_decode(buffer), LAMBDA d1 :
    With(IF UMod(d1.value, MAGIC_F) > 0
         THEN [value |-> U(0), bytes_read |-> 0, buffer |-> d1.buffer]
         ELSE vbyte_decode(d1.buffer), LAMBDA d2 :
    With(magic_split(d1.value, d2.value), LAMBDA sp :
      IF sp.ovf /\ overflow_checks
      THEN [panic |-> TRUE, docgap |-> U(0), freq |-> U(0), buffer |-> d2.buffer]
      ELSE [panic |-> FALSE, docgap |-> sp.gap, freq |-> sp.freq,
            buffer |-> d2.buffer])))

magic_bytes_required(docgap, freq) ==
    With(magic_values(docgap, freq), LAMBDA mv :
      [panic |-> mv.ovf /\ overflow_checks,
       bytes |-> IF Len(mv.values) = 1
                 THEN vbyte_bytes_required(mv.values[1])
                 ELSE vbyte_bytes_required(mv.values[1])
                      + vbyte_bytes_required(mv.values[2])])

-----------------------------------------------------------------------------
(***************************************************************************)
(* compress.rs: VbyteEncodedBuffer and MagicEncodedBuffer.  A buffer is    *)
(* the record [buffer, index, capacity, last_docid]: the Vec<u8>, the      *)
(* cursor, the Vec's capacity and the docid the gaps are relative to.      *)
(***************************************************************************)
Max2(a, b) == IF a >= b THEN a ELSE b

\* Vec::resize(new_len, 0); a growing Vec at least doubles its capacity
VecResize(mb, new_len) ==
    IF new_len <= Len(mb.buffer)
    THEN [mb EXCEPT !.buffer = SubSeq(mb.buffer, 1, new_len)]
    ELSE [mb EXCEPT !.buffer = mb.buffer \o [i \in 1..(new_len - Len(mb.buffer)) |-> 0],
                    !.capacity = IF new_len <= mb.capacity THEN mb.capacity
                                 ELSE Max2(Max2(2 * mb.capacity, new_len), 8)]

new_with_capacity(capacity) ==
    [buffer |-> <<>>, index |-> 0, capacity |-> capacity, last_docid |-> U(0)]

from_vec(bytes) ==
    [buffer |-> bytes, index |-> 0, capacity |-> Len(bytes), last_docid |-> U(0)]

reset(mb) == [mb EXCEPT !.index = 0, !.last_docid = U(0)]

\* "if self.index >= self.buffer.len() { resize(self.index * 2, 0) };
\*  self.buffer[self.index] = write_byte; self.index += 1"
put_byte(mb, write_byte) ==
    With(IF mb.index >= Len(mb.buffer) THEN VecResize(mb, mb.index * 2) ELSE mb,
         LAMBDA m1 :
      IF m1.index >= Len(m1.buffer)
      THEN [panic |-> TRUE, mb |-> m1]
      ELSE [panic |-> FALSE,
            mb |-> [m1 EXCEPT !.buffer[m1.index + 1] = write_byte,
                              !.index = m1.index + 1]])

RECURSIVE vb_write_loop(_, _, _, _)
vb_write_loop(mb, write_byte, value, bytes_written) ==
    IF ULt(U(0), value)
    THEN With(put_byte(mb, BitOrN(write_byte, 128)), LAMBDA p :
           IF p.panic THEN [panic |-> TRUE, mb |-> p.mb, bytes |-> bytes_written]
           ELSE vb_write_loop(p.mb, UAnd7f(value), UShr7(value), bytes_written + 1))
    ELSE With(put_byte(mb, write_byte), LAMBDA p :
           [panic |-> p.panic, mb |-> p.mb, bytes |-> bytes_written + 1])

\* VbyteEncodedBuffer::write
vbyte_write(mb, value) ==
    LET m0 == IF Len(mb.buffer) < mb.capacity THEN VecResize(mb, mb.capacity) ELSE mb
    IN  vb_write_loop(m0, UAnd7f(value), UShr7(value), 0)

RECURSIVE vb_read_loop(_, _, _)
vb_read_loop(mb, value, shift) ==
    IF mb.index >= Len(mb.buffer)
    THEN [err |-> TRUE, value |-> value, mb |-> mb]
    ELSE With(mb.buffer[mb.index + 1], LAMBDA byte :
         With(UOr(value, UShl7(byte % 128, shift)), LAMBDA v :
           IF byte < 128
           THEN [err |-> FALSE, value |-> v, mb |-> [mb EXCEPT !.index = mb.index + 1]]
           ELSE vb_read_loop([mb EXCEPT !.index = mb.index + 1], v, shift + 7)))

\* VbyteEncodedBuffer::read
vbyte_read(mb) == vb_read_loop(mb, U(0), 0)

magic_write_no_last(mb, docid, freq) ==
    With(mb, LAMBDA m0 :
    With(USub(docid, mb.last_docid), LAMBDA gap :
    With(magic_values(gap.v, freq), LAMBDA mv :
      IF (gap.ovf \/ mv.ovf) /\ overflow_checks
      THEN [panic |-> TRUE, mb |-> m0, bytes |-> 0]
      ELSE With(vbyte_write(m0, mv.values[1]), LAMBDA w1 :
        IF Len(mv.values) = 1 \/ w1.panic
        THEN w1
        ELSE With(vbyte_write(w1.mb, mv.values[2]), LAMBDA w2 :
          [panic |-> w2.panic, mb |-> w2.mb, bytes |-> w1.bytes + w2.bytes])))))

\* MagicEncodedBuffer::write
magic_write(mb, docid, freq) ==
    With([mb EXCEPT !.last_docid = docid], LAMBDA m0 :
    With(USub(docid, mb.last_docid), LAMBDA gap :
    With(magic_values(gap.v, freq), LAMBDA mv :
      IF (gap.ovf \/ mv.ovf) /\ overflow_checks
      THEN [panic |-> TRUE, mb |-> m0, bytes |-> 0]
      ELSE With(vbyte_write(m0, mv.values[1]), LAMBDA w1 :
        IF Len(mv.values) = 1 \/ w1.panic
        THEN w1
        ELSE With(vbyte_write(w1.mb, mv.values[2]), LAMBDA w2 :
          [panic |-> w2.panic, mb |-> w2.mb, bytes |-> w1.bytes + w2.bytes])))))

\* MagicEncodedBuffer::read
magic_read(mb) ==
    With(vbyte_read(mb), LAMBDA r1 :
    With(IF r1.err \/ UMod(r1.value, MAGIC_F) > 0
         THEN [err |-> FALSE, value |-> U(0), mb |-> r1.mb]
         ELSE vbyte_read(r1.mb), LAMBDA r2 :
    With(magic_split(r1.value, r2.value), LAMBDA sp :
    With(UAdd(mb.last_docid, sp.gap), LAMBDA last :
      IF r1.err \/ r2.err \/ ((sp.ovf \/ last.ovf) /\ overflow_checks)
      THEN [panic |-> TRUE, docid |-> U(0), freq |-> U(0), mb |-> r2.mb]
      ELSE [panic |-> FALSE, docid |-> last.v, freq |-> sp.freq,
            mb |-> [r2.mb EXCEPT !.last_docid = last.v]]))))

-----------------------------------------------------------------------------
(***************************************************************************)
(* index.rs: Posting and PostingList.  A PostingList is the sequence of    *)
(* its postings, [doc_id, tf], both u32.                                   *)
(***************************************************************************)

\* #[derive(PartialOrd, Ord)] on Posting: by doc_id, then by tf
PostingLt(a, b) ==
    ULt(a.doc_id, b.doc_id) \/ (a.doc_id = b.doc_id /\ ULt(a.tf, b.tf))

RECURSIVE InsertPosting(_, _)
InsertPosting(sorted, p) ==
    IF sorted = <<>> THEN <<p>>
    ELSE IF PostingLt(p, Head(sorted)) THEN <<p>> \o sorted
    ELSE <<Head(sorted)>> \o InsertPosting(Tail(sorted), p)

\* self.postings.sort()
RECURSIVE sort_postings(_)
sort_postings(postings) ==
    IF postings = <<>> THEN <<>>
    ELSE InsertPosting(sort_postings(SubSeq(postings, 1, Len(postings) - 1)),
                       postings[Len(postings)])

\* PostingList::add_posting: the asserts, then the push
add_posting_pl(postings, doc_id, tf) ==
    IF doc_id = U(0) \/ tf = U(0)
    THEN [panic |-> TRUE, postings |-> postings]
    ELSE [panic |-> FALSE, postings |-> Append(postings, [doc_id |-> doc_id, tf |-> tf])]

RECURSIVE bytes_loop(_, _, _)
bytes_loop(sorted, last_docid, bytes) ==
    IF sorted = <<>> THEN [panic |-> FALSE, bytes |-> bytes]
    ELSE With(Head(sorted), LAMBDA p :
         With(USub(p.doc_id, last_docid), LAMBDA d :
         With(IF ULt(U(0), last_docid) THEN d.v ELSE p.doc_id, LAMBDA docgap :
         With(magic_bytes_required(docgap, p.tf), LAMBDA m :
           IF (ULt(U(0), last_docid) /\ d.ovf /\ overflow_checks)
              \/ docgap = U(0) \/ m.panic
           THEN [panic |-> TRUE, bytes |-> bytes]
           ELSE bytes_loop(Tail(sorted), p.doc_id, bytes + m.bytes)))))

\* PostingList::bytes_to_serialize: sorts the postings, then counts
bytes_to_serialize(postings) ==
    With(sort_postings(postings), LAMBDA sorted :
    With(bytes_loop(sorted, U(0), vbyte_bytes_required(U(Len(sorted)))), LAMBDA r :
      [panic |-> r.panic, bytes |-> r.bytes, postings |-> sorted]))

RECURSIVE write_postings(_, _)
write_postings(sorted, mb) ==
    IF sorted = <<>> THEN [panic |-> FALSE, mb |-> mb]
    ELSE With(magic_write(mb, Head(sorted).doc_id, Head(sorted).tf), LAMBDA w :
           IF w.panic THEN [panic |-> TRUE, mb |-> w.mb]
           ELSE write_postings(Tail(sorted), w.mb))

\* PostingList::serialize_into: sort, reset the buffer, write the count and
\* the postings (shrink_to_fit changes no byte: the Vec's len is its capacity)
serialize_into(postings, buf) ==
    With(sort_postings(postings), LAMBDA sorted :
    With(vbyte_write(reset(buf), U(Len(postings))), LAMBDA w0 :
      IF w0.panic THEN [panic |-> TRUE, postings |-> sorted, buf |-> w0.mb]
      ELSE With(write_postings(sorted, w0.mb), LAMBDA w :
        [panic |-> w.panic, postings |-> sorted, buf |-> w.mb])))

RECURSIVE read_postings(_, _, _)
read_postings(n, mb, postings) ==
    IF n = 0 THEN [panic |-> FALSE, postings |-> postings, buf |-> mb]
    ELSE With(magic_read(mb), LAMBDA r :
           IF r.panic THEN [panic |-> TRUE, postings |-> postings, buf |-> r.mb]
           ELSE read_postings(n - 1, r.mb,
                              Append(postings, [doc_id |-> r.docid, tf |-> r.freq])))

\* PostingList::deserialize
deserialize(buf) ==
    With(vbyte_read(reset(buf)), LAMBDA r0 :
      IF r0.err THEN [panic |-> TRUE, postings |-> <<>>, buf |-> r0.mb]
      ELSE read_postings(N(r0.value), r0.mb, <<>>))


-----------------------------------------------------------------------------
(***************************************************************************)
(* lrucache.rs.  A cache is [capacity, cache, order]; capacity 0 stands    *)
(* for None (no limit), cache is a function on the cached keys.            *)
(***************************************************************************)

\* LruCache::new
lru_new(capacity) == [capacity |-> capacity, cache |-> <<>>, order |-> <<>>]

\* f with key k bound to v
MapPut(f, k, v) == [x \in (DOMAIN f) \cup {k} |-> IF x = k THEN v ELSE f[x]]

\* f without key k
MapRemove(f, k) == [x \in (DOMAIN f) \ {k} |-> f[x]]

\* order.iter().position(|x| *x == *key): 0 when the key is not there
RECURSIVE position(_, _, _)
position(order, key, i) ==
    IF i > Len(order) THEN 0
    ELSE IF order[i] = key THEN i
    ELSE position(order, key, i + 1)

\* order.remove(index)
SeqRemove(order, index) ==
    SubSeq(order, 1, index - 1) \o SubSeq(order, index + 1, Len(order))

\* the unwrap of order.pop_front() in insert fails
lru_insert_panics(c, key) ==
    /\ key \notin DOMAIN c.cache
    /\ c.capacity # 0 /\ Cardinality(DOMAIN c.cache) = c.capacity
    /\ c.order = <<>>

\* an insert that stores the value and refreshes the key in every case
lru_insert_always(c, key, value) ==
    With(IF c.capacity # 0 /\ Cardinality(DOMAIN c.cache) = c.capacity
         THEN [c EXCEPT !.cache = MapRemove(c.cache, Head(c.order)),
                        !.order = Tail(c.order)]
         ELSE c, LAMBDA c1 :
      [c1 EXCEPT !.cache = MapPut(c1.cache, key, value),
                 !.order = Append(SelectSeq(c1.order, LAMBDA x : x # key), key)])

\* LruCache::insert
lru_insert(c, key, value) ==
    IF key \notin DOMAIN c.cache
    THEN With(IF c.capacity # 0 /\ Cardinality(DOMAIN c.cache) = c.capacity
              THEN [c EXCEPT !.cache = MapRemove(c.cache, Head(c.order)),
                             !.order = Tail(c.order)]
              ELSE c, LAMBDA c1 :
           [c1 EXCEPT !.cache = MapPut(c1.cache, key, value),
                      !.order = Append(c1.order, key)])
    ELSE c

\* LruCache::contains_key
lru_contains_key(c, key) == key \in DOMAIN c.cache

\* the unwrap of position() in get / get_mut fails
lru_get_panics(c, key) == key \in DOMAIN c.cache /\ position(c.order, key, 1) = 0

\* a get that leaves the order alone
lru_get_no_refresh(c, key) == c

\* LruCache::get / get_mut: the cache after the call (the value returned
\* is c.cache[key] when the key is cached, None otherwise)
lru_get(c, key) ==
    IF key \in DOMAIN c.cache
    THEN [c EXCEPT !.order = Append(SeqRemove(c.order, position(c.order, key, 1)), key)]
    ELSE c

\* a clear that empties the map and leaves the queue
lru_clear_map_only(c) == [c EXCEPT !.cache = <<>>]

\* LruCache::clear
lru_clear(c) == [c EXCEPT !.cache = <<>>, !.order = <<>>]

-----------------------------------------------------------------------------
(***************************************************************************)
(* odch.rs.  An Option is <<>> (None) or <<v>> (Some(v)); idx[i] of the    *)
(* source is idx[i + 1] here.                                              *)
(***************************************************************************)

\* OnDiskCompressedHash::new
odch_new == [map |-> <<>>, idx |-> <<>>, finalized |-> FALSE]

\* OnDiskCompressedHash::open: map.insert(el.clone(), i) for (i, el) in
\* idx.iter().enumerate(), a later insert of the same key replacing an earlier
odch_open(idx) ==
    [map |-> [el \in {idx[j] : j \in 1..Len(idx)} |->
                 (CHOOSE i \in 1..Len(idx) :
                     idx[i] = el /\ \A j \in (i + 1)..Len(idx) : idx[j] # el) - 1],
     idx |-> idx, finalized |-> FALSE]

\* OnDiskCompressedHash::get_or_insert: [panic, od, id]
get_or_insert(h, key) ==
    IF h.finalized THEN [panic |-> TRUE, od |-> h, id |-> 0]
    ELSE IF key \in DOMAIN h.map THEN [panic |-> FALSE, od |-> h, id |-> h.map[key]]
    ELSE [panic |-> FALSE,
          od |-> [h EXCEPT !.map = MapPut(h.map, key, Len(h.idx) + 1),
                           !.idx = Append(h.idx, key)],
          id |-> Len(h.idx) + 1]

\* OnDiskCompressedHash::get_idx_for
get_idx_for(h, key) == IF key \in DOMAIN h.map THEN <<h.map[key]>> ELSE <<>>

\* OnDiskCompressedHash::get_key_for: intid - 1 is usize arithmetic, at
\* intid = 0 it panics with overflow checks and wraps to usize::MAX without
get_key_for(h, intid) ==
    IF intid = 0
    THEN [panic |-> overflow_checks, key |-> <<>>]
    ELSE [panic |-> FALSE,
          key |-> IF intid - 1 < Len(h.idx) THEN <<h.idx[intid]>> ELSE <<>>]

-----------------------------------------------------------------------------
(***************************************************************************)
(* index.rs: InvertedFile.  offsets[tokid] of the source is                *)
(* offsets[tokid + 1] here.                                                *)
(***************************************************************************)

\* InvertedFile::open
inv_open(offsets, cache_capacity) ==
    [offsets |-> offsets, cache |-> lru_new(cache_capacity),
     cache_count |-> 0, pl_gets |-> 0, cache_hits |-> 0]

\* InvertedFile::get_posting_list: [panic, inv, pl]
get_posting_list(iv, file, tokid) ==
    IF tokid = 0 THEN [panic |-> TRUE, inv |-> iv, pl |-> <<>>]
    ELSE With([iv EXCEPT !.pl_gets = @ + 1], LAMBDA i1 :
      IF ~lru_contains_key(i1.cache, tokid)
      THEN IF tokid + 1 > Len(i1.offsets)
           THEN [panic |-> TRUE, inv |-> i1, pl |-> <<>>]
           ELSE With(i1.offsets[tokid + 1], LAMBDA pi :
             IF pi.offset + pi.len > Len(file)
             THEN [panic |-> TRUE, inv |-> i1, pl |-> <<>>]
             ELSE With(deserialize(from_vec(SubSeq(file, pi.offset + 1, pi.offset + pi.len))),
                       LAMBDA d :
               IF d.panic \/ lru_insert_panics(i1.cache, tokid)
               THEN [panic |-> TRUE, inv |-> i1, pl |-> <<>>]
               ELSE With(lru_insert(i1.cache, tokid, d.postings), LAMBDA c1 :
                 [panic |-> lru_get_panics(c1, tokid),
                  inv |-> [i1 EXCEPT !.cache = lru_get(c1, tokid)],
                  pl |-> c1.cache[tokid]])))
      ELSE [panic |-> lru_get_panics(i1.cache, tokid),
            inv |-> [i1 EXCEPT !.cache_hits = @ + 1, !.cache = lru_get(i1.cache, tokid)],
            pl |-> i1.cache.cache[tokid]])

\* InvertedFile::new
inv_new == [offsets |-> <<>>, cache |-> lru_new(0),
            cache_count |-> 0, pl_gets |-> 0, cache_hits |-> 0]

\* add_posting without its three assert_ne!
inv_add_posting_unasserted(iv, tokid, docid, tf) ==
    IF lru_get_panics(iv.cache, tokid)
    THEN [panic |-> TRUE, inv |-> iv]
    ELSE With(IF tokid \in DOMAIN iv.cache.cache
              THEN [iv EXCEPT !.pl_gets = @ + 1, !.cache_hits = @ + 1,
                              !.cache = lru_get(iv.cache, tokid)]
              ELSE [iv EXCEPT !.pl_gets = @ + 1,
                              !.cache = lru_get(lru_insert(iv.cache, tokid, <<>>), tokid)],
              LAMBDA i1 :
           With(add_posting_pl(i1.cache.cache[tokid], docid, tf), LAMBDA a :
             [panic |-> a.panic \/ lru_insert_panics(iv.cache, tokid),
              inv |-> [i1 EXCEPT !.cache.cache[tokid] = a.postings,
                                 !.cache_count = @ + 1]]))

\* InvertedFile::add_posting: [panic, inv]
inv_add_posting(iv, tokid, docid, tf) ==
    IF tokid = 0 \/ docid = U(0) \/ tf = U(0) \/ lru_get_panics(iv.cache, tokid)
    THEN [panic |-> TRUE, inv |-> iv]
    ELSE With(IF tokid \in DOMAIN iv.cache.cache
              THEN [iv EXCEPT !.pl_gets = @ + 1, !.cache_hits = @ + 1,
                              !.cache = lru_get(iv.cache, tokid)]
              ELSE [iv EXCEPT !.pl_gets = @ + 1,
                              !.cache = lru_get(lru_insert(iv.cache, tokid, <<>>), tokid)],
              LAMBDA i1 :
           With(add_posting_pl(i1.cache.cache[tokid], docid, tf), LAMBDA a :
             [panic |-> a.panic \/ lru_insert_panics(iv.cache, tokid),
              inv |-> [i1 EXCEPT !.cache.cache[tokid] = a.postings,
                                 !.cache_count = @ + 1]]))

\* size_of::<Posting>(): two u32
SizeOfPosting == 8

\* InvertedFile::memusage, a u32 product: [v, ovf]
memusage(iv) == UMul(U(iv.cache_count), SizeOfPosting)

\* Vec::insert(index, element): panics when index > len
VecInsert(v, index, element) ==
    IF index > Len(v) THEN [panic |-> TRUE, v |-> v]
    ELSE [panic |-> FALSE,
          v |-> SubSeq(v, 1, index) \o <<element>> \o SubSeq(v, index + 1, Len(v))]

\* the loop of InvertedFile::save over the cache entries in the order given;
\* pos is the position of the file opened for appending: 0 until the first
\* write, the end of the file after a write
RECURSIVE save_loop(_, _, _, _)
save_loop(order, iv, file, pos) ==
    IF order = <<>> THEN [panic |-> FALSE, inv |-> iv, file |-> file]
    ELSE With(bytes_to_serialize(iv.cache.cache[Head(order)]), LAMBDA b :
         With(VecInsert(iv.offsets, Head(order), [offset |-> pos, len |-> b.bytes]),
              LAMBDA ins :
           IF b.panic \/ ins.panic THEN [panic |-> TRUE, inv |-> iv, file |-> file]
           ELSE With(serialize_into(b.postings, new_with_capacity(b.bytes)), LAMBDA ser :
             IF ser.panic THEN [panic |-> TRUE, inv |-> iv, file |-> file]
             ELSE save_loop(Tail(order), [iv EXCEPT !.offsets = ins.v],
                            file \o ser.buf.buffer,
                            Len(file) + Len(ser.buf.buffer)))))

\* InvertedFile::save, the cache iterated in the order given:
\* [panic, inv, file, off_file]
save(iv, file, order) ==
    With(save_loop(order, iv, file, 0), LAMBDA r :
      [panic |-> r.panic,
       inv |-> IF r.panic THEN r.inv ELSE [r.inv EXCEPT !.cache = lru_clear(r.inv.cache)],
       file |-> r.file,
       off_file |-> IF r.panic THEN <<>> ELSE r.inv.offsets])

-----------------------------------------------------------------------------
(***************************************************************************)
(* Each specification below runs one part of the program; the variables of *)
(* the other parts stay at rest.                                           *)
(***************************************************************************)

NoDec == [value |-> U(0), freq |-> U(0), bytes_read |-> 0]

\* the parts that build a Store, and the parts that train and score on one
BuildParts == {"codec", "sort", "lru", "inv", "od", "build"}
QueryParts == {"train", "score", "web", "fault", "mem", "store"}

\* the parts named are at rest: no codec test, no sort, no cache on its own,
\* no inverted file open, no OnDiskCompressedHash in use, no build running
AtRest(parts) ==
    /\ "codec" \in parts =>
         /\ cin = [kind |-> "none", value |-> U(0), freq |-> U(0), postings |-> <<>>,
                   slack |-> 0]
         /\ cpc = "idle"
         /\ cbuf = <<>>
         /\ cenc = [written |-> 0]
         /\ cdec = NoDec
         /\ pl = <<>>
         /\ mbuf = new_with_capacity(0)
         /\ pl2 = <<>>
    /\ "sort" \in parts =>
         /\ s_input = <<>>
         /\ s_bufsize = 1
         /\ s_pc = "idle"
         /\ s_reader = <<>>
         /\ s_buffer = <<>>
         /\ s_runs = <<>>
         /\ s_items = 0
         /\ s_files = <<>>
         /\ s_heap = <<>>
         /\ s_out = <<>>
    /\ "lru" \in parts =>
         /\ lru_pc = "idle"
         /\ lru = lru_new(0)
         /\ lru_clock = 0
         /\ lru_used = <<>>
         /\ lru_last = [op |-> "none"]
    /\ "inv" \in parts =>
         /\ inv_pc = "idle"
         /\ inv = inv_new
         /\ inv_file = <<>>
         /\ inv_hist = <<>>
         /\ inv_ret = <<>>
    /\ "od" \in parts =>
         /\ od_pc = "idle"
         /\ od = odch_new
         /\ od_disk = <<>>
         /\ od_saved = FALSE
         /\ od_ids = <<>>
         /\ od_last = [op |-> "none"]
         /\ od_ops = 0
    /\ "train" \in parts =>
         /\ cl_pc = "idle"
         /\ cl = [w |-> <<>>, scale |-> "one"]
         /\ cl_pos = {}
         /\ cl_neg = {}
         /\ cl_ab = <<>>
         /\ cl_i = 0
         /\ cl_w0 = <<>>
         /\ cl_saved = FALSE
    /\ "score" \in parts =>
         /\ sc_pc = "idle"
         /\ sc_w = <<>>
         /\ sc_n = 0
         /\ sc_excl = {}
         /\ sc_by = [push |-> "partial_cmp", desc |-> "partial_cmp"]
         /\ sc_index = <<>>
         /\ sc_full = <<>>
    /\ "web" \in parts =>
         /\ web_pc = <<>>
         /\ web_kind = <<>>
         /\ web_mutex = [holder |-> 0, poisoned |-> FALSE]
    /\ "fault" \in parts =>
         /\ s_fault = "none"
    /\ "mem" \in parts =>
         /\ mi_pc = "idle"
         /\ mi_input = <<>>
         /\ mi_lines = <<>>
         /\ mi_dict = [m |-> <<>>, df |-> <<>>, last_tokid |-> 1]
         /\ mi_docsdb = [ext2int |-> <<>>, next_intid |-> 1]
         /\ mi_num_docs = 0
         /\ mi_inv = [offsets |-> <<>>, cache |-> [capacity |-> 0, cache |-> <<>>, order |-> <<>>],
                      cache_count |-> 0, pl_gets |-> 0, cache_hits |-> 0]
         /\ mi_featfile = <<>>
         /\ mi_idf = <<>>
    /\ "store" \in parts =>
         /\ st_pc = "idle"
         /\ st_config_file = FALSE
         /\ st_config = [num_docs |-> 0, num_features |-> 0, pl_cache_size |-> 0]
         /\ st_fvfile = <<>>
         /\ st_docids = <<>>
         /\ st_vocab = <<>>
         /\ st_hist = <<>>
         /\ st_ret = <<>>
    /\ "build" \in parts =>
         /\ b_pc = "idle"
         /\ b_input = <<>>
         /\ b_lines = <<>>
         /\ b_vocab = odch_new
         /\ b_docids = odch_new
         /\ b_num_docs = 0
         /\ b_num_tuples = 0
         /\ b_tuples = <<>>
         /\ b_sorted = <<>>
         /\ b_reader = <<>>
         /\ b_pt = <<>>
         /\ b_current_intid = 0
         /\ b_tuple_count = 0
         /\ b_inv = inv_new
         /\ b_inv_file = <<>>
         /\ b_off_file = <<>>
         /\ b_fv = <<>>
         /\ b_featfile = <<>>
         /\ b_fv_offsets = <<>>
         /\ b_df = <<>>

-----------------------------------------------------------------------------
(***************************************************************************)
(* extsort.rs.  A record of type T is [key, tag]: T's comparator (Ord and  *)
(* Eq) reads the key only, the tag stands for the rest of the record.      *)
(***************************************************************************)

\* PTuple's derived Ord: by tok, then docid, then count
PTupleLe(a, b) ==
    \/ a.tok < b.tok
    \/ a.tok = b.tok /\ a.docid < b.docid
    \/ a.tok = b.tok /\ a.docid = b.docid /\ a.count <= b.count

\* T's Ord: a <= b, for T = PTuple and for the records [key, tag]
TLe(a, b) == IF "tok" \in DOMAIN a THEN PTupleLe(a, b) ELSE a.key <= b.key

RECURSIVE InsertRecord(_, _)
InsertRecord(sorted, r) ==
    IF sorted = <<>> THEN <<r>>
    ELSE IF ~TLe(Head(sorted), r) THEN <<r>> \o sorted
    ELSE <<Head(sorted)>> \o InsertRecord(Tail(sorted), r)

\* a run written as it was buffered
par_sort_skipped(buffer) == buffer

\* buffer.par_sort(): a stable sort
RECURSIVE par_sort(_)
par_sort(buffer) ==
    IF buffer = <<>> THEN <<>>
    ELSE InsertRecord(par_sort(SubSeq(buffer, 1, Len(buffer) - 1)), buffer[Len(buffer)])

\* impl Ord for ObjAndFileIndex: cmp is other.obj.cmp(&self.obj), so
\* a <= b holds when b.obj <= a.obj; the file index i is not compared
HeapLe(a, b) == TLe(b.obj, a.obj)

\* data with the elements at the (0-based) positions i and j exchanged
Swap(data, i, j) == [data EXCEPT ![i + 1] = data[j + 1], ![j + 1] = data[i + 1]]

\* BinaryHeap::sift_up(start, pos)
RECURSIVE sift_up(_, _, _)
sift_up(data, start, pos) ==
    IF pos > start
    THEN IF HeapLe(data[pos + 1], data[((pos - 1) \div 2) + 1])
         THEN data
         ELSE sift_up(Swap(data, pos, (pos - 1) \div 2), start, (pos - 1) \div 2)
    ELSE data

\* BinaryHeap::push
heap_push(data, item) == sift_up(Append(data, item), 0, Len(data))

\* BinaryHeap::sift_down_to_bottom: move the hole at pos down to a leaf,
\* always towards the greater child, then sift the element up again
RECURSIVE sift_down_to_bottom(_, _, _)
sift_down_to_bottom(data, start, pos) ==
    IF 2 * pos + 1 <= Len(data) - 2
    THEN With(IF HeapLe(data[2 * pos + 2], data[2 * pos + 3])
              THEN 2 * pos + 2 ELSE 2 * pos + 1, LAMBDA child :
           sift_down_to_bottom(Swap(data, pos, child), start, child))
    ELSE IF 2 * pos + 1 = Len(data) - 1
    THEN sift_up(Swap(data, pos, 2 * pos + 1), start, 2 * pos + 1)
    ELSE sift_up(data, start, pos)

\* BinaryHeap::pop on a non-empty heap: the greatest item and the heap left
heap_pop(data) ==
    IF Len(data) = 1
    THEN [item |-> data[1], data |-> <<>>]
    ELSE [item |-> data[1],
          data |-> sift_down_to_bottom(
                       [SubSeq(data, 1, Len(data) - 1) EXCEPT ![1] = data[Len(data)]],
                       0, 0)]

MaxInput == 4
MaxKey == 2
MaxBuf == 3

\* the input files: record i is [key, tag |-> i], or [key, tag |-> 0] in
\* the files whose records with the same key are the same record
RECURSIVE KeySeqs(_)
KeySeqs(n) ==
    IF n = 0 THEN {<<>>}
    ELSE KeySeqs(n - 1)
         \cup {Append(ks, k) : ks \in {t \in KeySeqs(n - 1) : Len(t) = n - 1},
                               k \in 1..MaxKey}

SortInputs ==
    {[i \in 1..Len(ks) |-> [key |-> ks[i], tag |-> i * t]] :
        ks \in KeySeqs(MaxInput), t \in {0, 1}}

InitSort ==
    /\ s_input \in SortInputs
    /\ s_bufsize \in 1..MaxBuf
    /\ s_pc = "divide"
    /\ s_reader = s_input
    /\ s_buffer = <<>>
    /\ s_runs = <<>>
    /\ s_items = 0
    /\ s_files = <<>>
    /\ s_heap = <<>>
    /\ s_out = <<>>
    /\ overflow_checks = FALSE /\ AtRest(QueryParts \cup {"codec", "lru", "inv", "od", "build"})

\* divide_into_runs, one turn of the loop: decode a record, push it, and
\* when the buffer is full sort it and write it to a new run file
ReadRecord ==
    /\ s_pc = "divide" /\ s_reader # <<>>
    /\ s_reader' = Tail(s_reader)
    /\ s_items' = s_items + 1
    /\ IF Len(s_buffer) + 1 = s_bufsize
       THEN /\ s_runs' = Append(s_runs, par_sort(Append(s_buffer, Head(s_reader))))
            /\ s_buffer' = <<>>
       ELSE /\ s_buffer' = Append(s_buffer, Head(s_reader))
            /\ s_runs' = s_runs
    /\ UNCHANGED <<s_pc, s_input, s_bufsize, s_files, s_heap, s_out>>
    /\ UNCHANGED <<overflow_checks, codecVars, queryVars, lruVars, invVars, odVars, buildVars>>

\* divide_into_runs at the end of the input: the decode fails, the loop
\* breaks and a non-empty buffer becomes the last run
EndOfInput ==
    /\ s_pc = "divide" /\ s_reader = <<>>
    /\ s_runs' = IF s_buffer # <<>> THEN Append(s_runs, par_sort(s_buffer)) ELSE s_runs
    /\ s_pc' = "merge_setup"
    /\ UNCHANGED <<s_input, s_bufsize, s_reader, s_buffer, s_items, s_files, s_heap,
                   s_out>>
    /\ UNCHANGED <<overflow_checks, codecVars, queryVars, lruVars, invVars, odVars, buildVars>>

\* the heap after the first record of each of the run files i..n was pushed
RECURSIVE push_first_records(_, _, _)
push_first_records(runs, i, data) ==
    IF i > Len(runs) THEN data
    ELSE push_first_records(runs, i + 1, heap_push(data, [obj |-> runs[i][1], i |-> i]))

\* merge_runs: open the run files and push the first record of each
MergeSetup ==
    /\ s_pc = "merge_setup"
    /\ s_heap' = push_first_records(s_runs, 1, <<>>)
    /\ s_files' = [i \in 1..Len(s_runs) |-> 1]
    /\ s_pc' = "merge"
    /\ UNCHANGED <<s_input, s_bufsize, s_reader, s_buffer, s_runs, s_items, s_out>>
    /\ UNCHANGED <<overflow_checks, codecVars, queryVars, lruVars, invVars, odVars, buildVars>>

\* merge_runs, one turn of the loop: pop, write, read the next record of
\* that run file and push it (or continue at its end)
MergePop ==
    /\ s_pc = "merge" /\ s_heap # <<>>
    /\ With(heap_pop(s_heap), LAMBDA oi :
         /\ s_out' = Append(s_out, oi.item.obj)
         /\ IF s_files[oi.item.i] < Len(s_runs[oi.item.i])
            THEN /\ s_heap' = heap_push(oi.data,
                                  [obj |-> s_runs[oi.item.i][s_files[oi.item.i] + 1],
                                   i |-> oi.item.i])
                 /\ s_files' = [s_files EXCEPT ![oi.item.i] = @ + 1]
            ELSE /\ s_heap' = oi.data
                 /\ s_files' = s_files)
    /\ UNCHANGED <<s_pc, s_input, s_bufsize, s_reader, s_buffer, s_runs, s_items>>
    /\ UNCHANGED <<overflow_checks, codecVars, queryVars, lruVars, invVars, odVars, buildVars>>

\* the heap is empty: merge_runs returns, the run files are removed
MergeDone ==
    /\ s_pc = "merge" /\ s_heap = <<>>
    /\ s_pc' = "done"
    /\ s_runs' = <<>>
    /\ s_files' = <<>>
    /\ UNCHANGED <<s_input, s_bufsize, s_reader, s_buffer, s_items, s_heap, s_out>>
    /\ UNCHANGED <<overflow_checks, codecVars, queryVars, lruVars, invVars, odVars, buildVars>>

NextSort ==
    \/ ReadRecord
    \/ EndOfInput
    \/ MergeSetup
    \/ MergePop
    \/ MergeDone

SpecSort == InitSort /\ [][NextSort]_vars

\* divide_into_runs when a read of the input fails (an I/O error, or bytes that
\* decode to no record): Err(_) => break, as at the end of the input
ReadFault ==
    /\ s_pc = "divide" /\ s_reader # <<>> /\ s_fault = "none"
    /\ s_fault' = "input"
    /\ s_runs' = IF s_buffer # <<>> THEN Append(s_runs, par_sort(s_buffer)) ELSE s_runs
    /\ s_pc' = "merge_setup"
    /\ UNCHANGED <<s_input, s_bufsize, s_reader, s_buffer, s_items, s_files, s_heap,
                   s_out>>
    /\ UNCHANGED <<overflow_checks, codecVars, lruVars, invVars, odVars, buildVars,
                   clVars, scVars, webVars, memVars, storeVars>>

\* merge_runs when the read of the first record of a run file fails: the ?
\* returns the error
FirstRecordFault ==
    /\ s_pc = "merge_setup" /\ s_runs # <<>> /\ s_fault = "none"
    /\ s_fault' = "first_record"
    /\ s_pc' = "failed"
    /\ UNCHANGED <<s_input, s_bufsize, s_reader, s_buffer, s_runs, s_items, s_files, s_heap,
                   s_out>>
    /\ UNCHANGED <<overflow_checks, codecVars, lruVars, invVars, odVars, buildVars,
                   clVars, scVars, webVars, memVars, storeVars>>

\* merge_runs, one turn of the loop in which the read of the next record of
\* the run file fails: Err(_) => continue, as at the end of the run file
RunReadFault ==
    /\ s_pc = "merge" /\ s_heap # <<>> /\ s_fault = "none"
    /\ With(heap_pop(s_heap), LAMBDA oi :
         /\ s_files[oi.item.i] < Len(s_runs[oi.item.i])
         /\ s_out' = Append(s_out, oi.item.obj)
         /\ s_heap' = oi.data)
    /\ s_fault' = "run"
    /\ UNCHANGED <<s_pc, s_input, s_bufsize, s_reader, s_buffer, s_runs, s_items, s_files>>
    /\ UNCHANGED <<overflow_checks, codecVars, lruVars, invVars, odVars, buildVars,
                   clVars, scVars, webVars, memVars, storeVars>>

NextSortErr ==
    \/ NextSort
    \/ ReadFault
    \/ FirstRecordFault
    \/ RunReadFault

SpecSortErr == InitSort /\ [][NextSortErr]_vars

\* C17: a sort that met a read error does not report success.
C17_ReadErrorAborts == s_fault # "none" => s_pc # "done"


\* C5: when external_sort_from has returned, the output is a permutation of
\* the input (the same records, each as often) and is non-decreasing under
\* T's comparator, for every input (the empty one too) and buffer size >= 1.
C5_SortedPermutation ==
    s_pc = "done" =>
        /\ Len(s_out) = Len(s_input)
        /\ \A r \in {s_input[i] : i \in 1..Len(s_input)} :
              Cardinality({i \in 1..Len(s_out) : s_out[i] = r})
                = Cardinality({i \in 1..Len(s_input) : s_input[i] = r})
        /\ \A i \in 1..(Len(s_out) - 1) : s_out[i].key <= s_out[i + 1].key

C5_Witness ==
    /\ s_pc = "done" /\ s_bufsize = 2 /\ Len(s_input) = 4
    /\ s_input[1].key = 2 /\ s_input[2].key = 1 /\ s_input[3].key = 2 /\ s_input[4].key = 1
    /\ s_input[1] = s_input[3]
    /\ s_out[1].key = 1 /\ s_out[4].key = 2

\* C6: the output is the stable sort of the input: records that compare
\* equal keep the relative order they have in the input (the tag of a
\* record that can be told from its equals is its position in the input).
C6_StableSort ==
    s_pc = "done" =>
        \A i, j \in 1..Len(s_out) :
            (i < j /\ s_out[i].key = s_out[j].key) => s_out[i].tag <= s_out[j].tag

-----------------------------------------------------------------------------
(***************************************************************************)
(* The cache driven directly, and through an InvertedFile that was opened  *)
(* on an index of NumToks posting lists.                                   *)
(***************************************************************************)

MaxCap == 2
MaxLruKey == 3
MaxLruOps == 4
NumToks == 3
MaxLookups == 4

LruKeys == 1..MaxLruKey
LruValues == {"v", "w"}

InitLruVars ==
    /\ lru_pc = "run"
    /\ \E capacity \in 0..MaxCap : lru = lru_new(capacity)
    /\ lru_clock = 0
    /\ lru_used = <<>>
    /\ lru_last = [op |-> "none"]

\* the times of last use after an operation that used key (or none, with
\* used = FALSE) and left the keys of c cached
Used(c, key, used) ==
    [k \in DOMAIN c.cache |-> IF k = key /\ used THEN lru_clock + 1 ELSE lru_used[k]]

LruInsert ==
    /\ lru_pc = "run" /\ lru_clock < MaxLruOps
    /\ \E key \in LruKeys, value \in LruValues :
         IF lru_insert_panics(lru, key)
         THEN lru_pc' = "panicked" /\ UNCHANGED <<lru, lru_clock, lru_used, lru_last>>
         ELSE /\ lru' = lru_insert(lru, key, value)
              /\ lru_used' = Used(lru', key, key \notin DOMAIN lru.cache)
              /\ lru_last' = [op |-> "insert", key |-> key, value |-> value,
                              before |-> lru, used |-> lru_used]
              /\ lru_clock' = lru_clock + 1
              /\ UNCHANGED lru_pc
    /\ UNCHANGED <<overflow_checks, codecVars, queryVars, sortVars, invVars, odVars, buildVars>>

LruContainsKey ==
    /\ lru_pc = "run" /\ lru_clock < MaxLruOps
    /\ \E key \in LruKeys :
         lru_last' = [op |-> "contains_key", key |-> key,
                      value |-> lru_contains_key(lru, key),
                      before |-> lru, used |-> lru_used]
    /\ lru_clock' = lru_clock + 1
    /\ UNCHANGED <<lru_pc, lru, lru_used>>
    /\ UNCHANGED <<overflow_checks, codecVars, queryVars, sortVars, invVars, odVars, buildVars>>

LruGet ==
    /\ lru_pc = "run" /\ lru_clock < MaxLruOps
    /\ \E key \in LruKeys :
         IF lru_get_panics(lru, key)
         THEN lru_pc' = "panicked" /\ UNCHANGED <<lru, lru_clock, lru_used, lru_last>>
         ELSE /\ lru' = lru_get(lru, key)
              /\ lru_used' = Used(lru', key, TRUE)
              /\ lru_last' = [op |-> "get", key |-> key,
                              value |-> IF key \in DOMAIN lru.cache
                                        THEN lru.cache[key] ELSE "None",
                              before |-> lru, used |-> lru_used]
              /\ lru_clock' = lru_clock + 1
              /\ UNCHANGED lru_pc
    /\ UNCHANGED <<overflow_checks, codecVars, queryVars, sortVars, invVars, odVars, buildVars>>

\* get_mut, and the caller writing a value through the reference it got
LruGetMut ==
    /\ lru_pc = "run" /\ lru_clock < MaxLruOps
    /\ \E key \in LruKeys, value \in LruValues :
         IF lru_get_panics(lru, key)
         THEN lru_pc' = "panicked" /\ UNCHANGED <<lru, lru_clock, lru_used, lru_last>>
         ELSE /\ lru' = IF key \in DOMAIN lru.cache
                        THEN [lru_get(lru, key) EXCEPT !.cache[key] = value]
                        ELSE lru
              /\ lru_used' = Used(lru', key, TRUE)
              /\ lru_last' = [op |-> "get_mut", key |-> key, value |-> value,
                              before |-> lru, used |-> lru_used]
              /\ lru_clock' = lru_clock + 1
              /\ UNCHANGED lru_pc
    /\ UNCHANGED <<overflow_checks, codecVars, queryVars, sortVars, invVars, odVars, buildVars>>

LruClear ==
    /\ lru_pc = "run" /\ lru_clock < MaxLruOps
    /\ lru' = lru_clear(lru)
    /\ lru_used' = <<>>
    /\ lru_last' = [op |-> "clear", before |-> lru, used |-> lru_used]
    /\ lru_clock' = lru_clock + 1
    /\ UNCHANGED lru_pc
    /\ UNCHANGED <<overflow_checks, codecVars, queryVars, sortVars, invVars, odVars, buildVars>>

\* the posting list of tokid t in the index on disk: documents 1..t
IndexPostings(t) == [d \in 1..t |-> [doc_id |-> U(d), tf |-> U(t)]]

\* the inverted file and its offset table, posting lists t..NumToks appended
RECURSIVE write_index(_, _, _)
write_index(t, file, offsets) ==
    IF t > NumToks THEN [file |-> file, offsets |-> offsets]
    ELSE With(bytes_to_serialize(IndexPostings(t)).bytes, LAMBDA bytes :
           write_index(t + 1,
               file \o serialize_into(IndexPostings(t), new_with_capacity(bytes)).buf.buffer,
               Append(offsets, [offset |-> Len(file), len |-> bytes])))

IndexOnDisk == write_index(1, <<>>, <<[offset |-> 0, len |-> 0]>>)

InitInvVars ==
    /\ inv_pc = "open"
    /\ \E cache_capacity \in 0..MaxCap : inv = inv_open(IndexOnDisk.offsets, cache_capacity)
    /\ inv_file = IndexOnDisk.file
    /\ inv_hist = <<>>
    /\ inv_ret = <<>>

GetPostingList ==
    /\ inv_pc = "open" /\ Len(inv_hist) < MaxLookups
    /\ \E tokid \in 0..(NumToks + 1) :
         With(get_posting_list(inv, inv_file, tokid), LAMBDA r :
           /\ inv_hist' = Append(inv_hist, tokid)
           /\ inv' = r.inv
           /\ inv_ret' = r.pl
           /\ inv_pc' = IF r.panic THEN "panicked" ELSE "open")
    /\ UNCHANGED inv_file
    /\ UNCHANGED <<overflow_checks, codecVars, queryVars, sortVars, lruVars, odVars, buildVars>>

InitLru ==
    /\ overflow_checks = FALSE /\ AtRest(QueryParts \cup {"codec", "sort", "od", "build"})
    /\ \/ InitLruVars /\ AtRest({"inv"})
       \/ InitInvVars /\ AtRest({"lru"})

NextLru ==
    \/ LruInsert
    \/ LruContainsKey
    \/ LruGet
    \/ LruGetMut
    \/ LruClear
    \/ GetPostingList

SpecLru == InitLru /\ [][NextLru]_vars

\* C7: in a cache of capacity C > 0, the insert of an absent key into a full
\* cache evicts exactly the key whose last use (its insertion, or a later
\* get) is the oldest, and keeps every other entry; contains_key changes
\* nothing; and an InvertedFile with cache capacity 2 that has received the
\* lookups t1, t2, t1, t3 holds t1 and t3 (t2 was evicted).
C7_LruEviction ==
    /\ (/\ lru_last.op = "insert"
        /\ lru_last.key \notin DOMAIN lru_last.before.cache
        /\ lru_last.before.capacity > 0
        /\ Cardinality(DOMAIN lru_last.before.cache) = lru_last.before.capacity)
       => \E victim \in DOMAIN lru_last.before.cache :
            /\ \A k \in DOMAIN lru_last.before.cache \ {victim} :
                 lru_last.used[victim] < lru_last.used[k]
            /\ DOMAIN lru.cache = (DOMAIN lru_last.before.cache \ {victim}) \cup {lru_last.key}
            /\ \A k \in DOMAIN lru_last.before.cache \ {victim} :
                 lru.cache[k] = lru_last.before.cache[k]
            /\ lru.cache[lru_last.key] = lru_last.value
    /\ lru_last.op = "contains_key" => lru = lru_last.before
    /\ (/\ inv_pc = "open" /\ inv.cache.capacity = 2 /\ Len(inv_hist) = 4
        /\ inv_hist[1] = inv_hist[3]
        /\ Cardinality({inv_hist[1], inv_hist[2], inv_hist[4]}) = 3)
       => DOMAIN inv.cache.cache = {inv_hist[1], inv_hist[4]}

C7_Witness ==
    /\ inv_pc = "open" /\ inv.cache.capacity = 2
    /\ inv_hist = <<1, 2, 1, 3>>
    /\ DOMAIN inv.cache.cache = {1, 3}
    /\ inv_ret = IndexPostings(3)
    /\ inv.cache_hits = 1

\* C8: insert(k, v) with k already cached changes nothing: the value stored
\* before is kept, the recency order is the same and no entry is evicted,
\* also when the cache is full.
C8_InsertExistingIsNoOp ==
    (lru_last.op = "insert" /\ lru_last.key \in DOMAIN lru_last.before.cache)
       => lru = lru_last.before

C8_Witness ==
    /\ lru_last.op = "insert" /\ lru_last.key \in DOMAIN lru_last.before.cache
    /\ lru.capacity = 2 /\ Cardinality(DOMAIN lru.cache) = 2
    /\ lru.order[1] = lru_last.key
    /\ lru.cache[lru_last.key] # lru_last.value

\* C27: in a cache of capacity C > 0, after any sequence of insert, get,
\* get_mut, contains_key and clear, the recency queue holds exactly the keys
\* of the map, each once, and the map holds at most C entries; so no get or
\* get_mut of a cached key misses it in the queue, no insert into a full
\* cache finds the queue empty, and no operation has panicked.
C27_QueueIsKeysOfMap ==
    (lru_pc # "idle" /\ lru.capacity > 0) =>
       /\ {lru.order[i] : i \in 1..Len(lru.order)} = DOMAIN lru.cache
       /\ Len(lru.order) = Cardinality(DOMAIN lru.cache)
       /\ Cardinality(DOMAIN lru.cache) <= lru.capacity
       /\ \A key \in LruKeys : ~lru_get_panics(lru, key) /\ ~lru_insert_panics(lru, key)
       /\ lru_pc = "run"

\* a full cache of capacity 2 whose last operation, after three others, was a
\* get that moved the front key of the queue to the back
C27_Witness ==
    /\ lru.capacity = 2 /\ Cardinality(DOMAIN lru.cache) = 2
    /\ lru_last.op = "get" /\ lru_last.key \in DOMAIN lru_last.before.cache
    /\ lru_last.before.order[1] = lru_last.key
    /\ lru.order[2] = lru_last.key
    /\ lru_clock = MaxLruOps

\* C18: get_posting_list of a tokid beyond the last one of the inverted file
\* returns (an error) without a posting list and leaves the cache as it was.
C18_UnknownTokidIsError ==
    [][(inv_hist' # inv_hist /\ inv_hist'[Len(inv_hist')] > NumToks)
          => (inv_pc' # "panicked" /\ inv_ret' = <<>> /\ inv'.cache = inv.cache)]_vars

-----------------------------------------------------------------------------
(***************************************************************************)
(* An OnDiskCompressedHash that is filled, saved, opened and queried.      *)
(***************************************************************************)

MaxOdOps == 5

OdKeys == {"a", "b", "c"}

InitOd ==
    /\ od_pc = "built"
    /\ od = odch_new
    /\ od_disk = <<>>
    /\ od_saved = FALSE
    /\ od_ids = <<>>
    /\ od_last = [op |-> "none"]
    /\ od_ops = 0
    /\ overflow_checks \in BOOLEAN /\ AtRest(QueryParts \cup {"codec", "sort", "lru", "inv", "build"})

OdGetOrInsert ==
    /\ od_pc \in {"built", "opened"} /\ od_ops < MaxOdOps
    /\ \E key \in OdKeys :
         With(get_or_insert(od, key), LAMBDA r :
           /\ od' = r.od
           /\ od_pc' = IF r.panic THEN "panicked" ELSE od_pc
           /\ od_ids' = IF key \in DOMAIN od_ids \/ r.panic
                        THEN od_ids ELSE MapPut(od_ids, key, r.id)
           /\ od_last' = [op |-> "get_or_insert", key |-> key, id |-> r.id])
    /\ od_ops' = od_ops + 1
    /\ UNCHANGED <<overflow_checks, od_disk, od_saved>>
    /\ UNCHANGED <<codecVars, queryVars, sortVars, lruVars, invVars, buildVars>>

\* OnDiskCompressedHash::save: the idx vector is encoded and written; the
\* finalized flag is only read
OdSave ==
    /\ od_pc \in {"built", "opened"} /\ od_ops < MaxOdOps
    /\ IF od.finalized
       THEN od_pc' = "panicked" /\ UNCHANGED <<od_disk, od_saved>>
       ELSE od_disk' = od.idx /\ od_saved' = TRUE /\ UNCHANGED od_pc
    /\ od_last' = [op |-> "save"]
    /\ od_ops' = od_ops + 1
    /\ UNCHANGED <<overflow_checks, od, od_ids>>
    /\ UNCHANGED <<codecVars, queryVars, sortVars, lruVars, invVars, buildVars>>

OdOpen ==
    /\ od_pc \in {"built", "opened"} /\ od_ops < MaxOdOps /\ od_saved
    /\ od' = odch_open(od_disk)
    /\ od_pc' = "opened"
    /\ od_ids' = [k \in (DOMAIN od_ids) \cap {od_disk[j] : j \in 1..Len(od_disk)} |->
                    od_ids[k]]
    /\ od_last' = [op |-> "open"]
    /\ od_ops' = od_ops + 1
    /\ UNCHANGED <<overflow_checks, od_disk, od_saved>>
    /\ UNCHANGED <<codecVars, queryVars, sortVars, lruVars, invVars, buildVars>>

\* get_idx_for(key), and get_key_for of the id it returned
OdLookup ==
    /\ od_pc \in {"built", "opened"} /\ od_ops < MaxOdOps
    /\ \E key \in OdKeys :
         With(get_idx_for(od, key), LAMBDA i :
         With(IF i = <<>> THEN [panic |-> FALSE, key |-> <<>>]
              ELSE get_key_for(od, i[1]), LAMBDA back :
           /\ od_last' = [op |-> "lookup", key |-> key, idx |-> i, back |-> back.key,
                          panic |-> back.panic]
           /\ od_pc' = IF back.panic THEN "panicked" ELSE od_pc))
    /\ od_ops' = od_ops + 1
    /\ UNCHANGED <<overflow_checks, od, od_disk, od_saved, od_ids>>
    /\ UNCHANGED <<codecVars, queryVars, sortVars, lruVars, invVars, buildVars>>

NextOd ==
    \/ OdGetOrInsert
    \/ OdSave
    \/ OdOpen
    \/ OdLookup

SpecOd == InitOd /\ [][NextOd]_vars

\* C10: the ids get_or_insert assigns are 1, 2, 3, ... in first-seen order
\* and a known key gets the id it has; for every key that has an id,
\* get_idx_for(k) is that id and get_key_for(get_idx_for(k)) = k, on the map
\* being built and on the map obtained by save followed by open.
C10_ForwardReverseAgree ==
    /\ \A i \in 1..Len(od.idx) :
         od.idx[i] \in DOMAIN od_ids => od_ids[od.idx[i]] = i
    /\ (od_last.op = "get_or_insert" /\ od_pc # "panicked")
         => od_last.id = od_ids[od_last.key]
    /\ (od_last.op = "lookup" /\ od_last.key \in DOMAIN od_ids)
         => /\ ~od_last.panic
            /\ od_last.idx = <<od_ids[od_last.key]>>
            /\ od_last.back = <<od_last.key>>

\* C19: a save() on the map made by new(), once that map has been saved, is
\* rejected and leaves the file as it was.
C19_SecondSaveRejected ==
    [][(od_pc = "built" /\ od_saved /\ od_ops' = od_ops + 1 /\ od_last'.op = "save")
          => (od_pc' = "panicked" /\ od_disk' = od_disk)]_vars

-----------------------------------------------------------------------------
(***************************************************************************)
(* bin/build_mapred.rs: build_index.  A line of a bundle is [docid, tokens]*)
(* with tokens what the tokenizer returns for the body.                    *)
(***************************************************************************)

MaxDocs == 2

Lines == [docid : {"a", "b"},
          tokens : {<<>>, <<"x">>, <<"x", "x">>, <<"x", "y">>, <<"y", "x", "y">>}]

RECURSIVE LineSeqs(_)
LineSeqs(n) ==
    IF n = 0 THEN {<<>>}
    ELSE LineSeqs(n - 1)
         \cup {Append(ls, l) : ls \in {t \in LineSeqs(n - 1) : Len(t) = n - 1}, l \in Lines}

\* the orders in which a HashMap with the keys S can be iterated
RECURSIVE Orders(_)
Orders(S) ==
    IF S = {} THEN {<<>>}
    ELSE UNION {{<<x>> \o o : o \in Orders(S \ {x})} : x \in S}

\* token_map: the count of each token of the text
token_map(tokens) ==
    [t \in {tokens[i] : i \in 1..Len(tokens)} |->
        Cardinality({i \in 1..Len(tokens) : tokens[i] = t})]

\* the loop over token_map in the order given: [vocab, tuples]
RECURSIVE emit_tuples(_, _, _, _, _)
emit_tuples(order, counts, intid, vocab, tuples) ==
    IF order = <<>> THEN [vocab |-> vocab, tuples |-> tuples]
    ELSE With(get_or_insert(vocab, Head(order)), LAMBDA r :
           emit_tuples(Tail(order), counts, intid, r.od,
               Append(tuples, [tok |-> r.id, docid |-> intid, count |-> counts[Head(order)]])))

\* divide_into_runs as a whole: the run files
RECURSIVE divide_into_runs(_, _, _, _)
divide_into_runs(reader, buffer_size, buffer, runs) ==
    IF reader = <<>>
    THEN IF buffer # <<>> THEN Append(runs, par_sort(buffer)) ELSE runs
    ELSE IF Len(buffer) + 1 = buffer_size
    THEN divide_into_runs(Tail(reader), buffer_size, <<>>,
                          Append(runs, par_sort(Append(buffer, Head(reader)))))
    ELSE divide_into_runs(Tail(reader), buffer_size, Append(buffer, Head(reader)), runs)

\* the loop of merge_runs as a whole: the output
RECURSIVE merge_loop(_, _, _, _)
merge_loop(runs, files, heap, out) ==
    IF heap = <<>> THEN out
    ELSE With(heap_pop(heap), LAMBDA oi :
      IF files[oi.item.i] < Len(runs[oi.item.i])
      THEN merge_loop(runs, [files EXCEPT ![oi.item.i] = @ + 1],
                      heap_push(oi.data, [obj |-> runs[oi.item.i][files[oi.item.i] + 1],
                                          i |-> oi.item.i]),
                      Append(out, oi.item.obj))
      ELSE merge_loop(runs, files, oi.data, Append(out, oi.item.obj)))

\* external_sort_from as a whole
external_sort_from(input, buffer_size) ==
    With(divide_into_runs(input, buffer_size, <<>>, <<>>), LAMBDA runs :
      merge_loop(runs, [i \in 1..Len(runs) |-> 1], push_first_records(runs, 1, <<>>), <<>>))

\* the buffer size build_index sorts with
SortBufferSize == 10000000

\* (100 * GB) as u32 = 10^11 mod 2^32 = 1215752192
CheckpointLimit == <<18550, 59392>>

InitBuild ==
    /\ b_pc = "step1"
    /\ b_input \in LineSeqs(MaxDocs)
    /\ b_lines = b_input
    /\ b_vocab = odch_new
    /\ b_docids = odch_new
    /\ b_num_docs = 0
    /\ b_num_tuples = 0
    /\ b_tuples = <<>>
    /\ b_sorted = <<>>
    /\ b_reader = <<>>
    /\ b_pt = <<>>
    /\ b_current_intid = 0
    /\ b_tuple_count = 0
    /\ b_inv = inv_new
    /\ b_inv_file = <<>>
    /\ b_off_file = <<>>
    /\ b_fv = <<>>
    /\ b_featfile = <<>>
    /\ b_fv_offsets = <<>>
    /\ b_df = <<>>
    /\ overflow_checks \in BOOLEAN /\ AtRest(QueryParts \cup {"codec", "sort", "lru", "inv", "od"})

\* step 1, one line: count it, give the document its intid, count the tokens
\* and write a tuple for each distinct token, in the order of the HashMap
MapLine ==
    /\ b_pc = "step1" /\ b_lines # <<>>
    /\ With(get_or_insert(b_docids, Head(b_lines).docid), LAMBDA d :
       With(token_map(Head(b_lines).tokens), LAMBDA counts :
         \E order \in Orders(DOMAIN counts) :
           With(emit_tuples(order, counts, d.id, b_vocab, b_tuples), LAMBDA e :
             /\ b_docids' = d.od
             /\ b_vocab' = e.vocab
             /\ b_tuples' = e.tuples
             /\ b_num_tuples' = b_num_tuples + Len(order))))
    /\ b_num_docs' = b_num_docs + 1
    /\ b_lines' = Tail(b_lines)
    /\ UNCHANGED <<b_pc, b_input, b_sorted>>
    /\ UNCHANGED <<b_reader, b_pt, b_current_intid, b_tuple_count, b_inv, b_inv_file,
                   b_off_file, b_fv, b_featfile, b_fv_offsets, b_df, overflow_checks,
                   codecVars, queryVars, sortVars, lruVars, invVars, odVars>>

\* the end of step 1 and step 2: the maps are saved, the tuples are sorted
SortTuples ==
    /\ b_pc = "step1" /\ b_lines = <<>>
    /\ b_sorted' = external_sort_from(b_tuples, SortBufferSize)
    /\ b_pc' = "step3"
    /\ UNCHANGED <<b_input, b_lines, b_vocab, b_docids, b_num_docs, b_num_tuples,
                   b_tuples>>
    /\ UNCHANGED <<b_reader, b_pt, b_current_intid, b_tuple_count, b_inv, b_inv_file,
                   b_off_file, b_fv, b_featfile, b_fv_offsets, b_df, overflow_checks,
                   codecVars, queryVars, sortVars, lruVars, invVars, odVars>>

\* step 3 before the loop: the first tuple is decoded, with ? on the error
ReduceStart ==
    /\ b_pc = "step3"
    /\ IF b_sorted = <<>>
       THEN b_pc' = "failed" /\ UNCHANGED <<b_reader, b_pt, b_current_intid,
                                            b_tuple_count>>
       ELSE /\ b_pc' = "reduce"
            /\ b_pt' = Head(b_sorted)
            /\ b_reader' = Tail(b_sorted)
            /\ b_current_intid' = Head(b_sorted).docid
            /\ b_tuple_count' = 1
    /\ UNCHANGED <<b_input, b_lines, b_vocab, b_docids, b_num_docs, b_num_tuples,
                   b_tuples, b_sorted, b_inv, b_inv_file, b_off_file>>
    /\ UNCHANGED <<b_fv, b_featfile, b_fv_offsets, b_df, overflow_checks, codecVars, queryVars,
                   sortVars, lruVars, invVars, odVars>>

\* step 3, one turn of the loop with the checkpoint threshold limit: a
\* checkpoint when the document changes and memusage is over the limit,
\* add_posting, the next tuple or the break
ReduceTurn(limit) ==
    /\ b_pc = "reduce"
    /\ \E order \in Orders(DOMAIN b_inv.cache.cache) :
         With(IF b_pt.docid # b_current_intid
                 /\ (memusage(b_inv).ovf \/ ULt(limit, memusage(b_inv).v))
              THEN IF memusage(b_inv).ovf /\ overflow_checks
                   THEN [panic |-> TRUE, inv |-> b_inv, file |-> b_inv_file,
                         off_file |-> b_off_file]
                   ELSE save(b_inv, b_inv_file, order)
              ELSE [panic |-> FALSE, inv |-> b_inv, file |-> b_inv_file,
                    off_file |-> b_off_file], LAMBDA cp :
         With(inv_add_posting(cp.inv, b_pt.tok, U(b_pt.docid), U(b_pt.count)), LAMBDA a :
           /\ b_inv' = a.inv
           /\ b_inv_file' = cp.file
           /\ b_off_file' = cp.off_file
           /\ b_current_intid' = b_pt.docid
           /\ IF cp.panic \/ a.panic
              THEN b_pc' = "panicked" /\ UNCHANGED <<b_pt, b_reader, b_tuple_count>>
              ELSE IF b_reader = <<>>
              THEN b_pc' = "reduced" /\ UNCHANGED <<b_pt, b_reader, b_tuple_count>>
              ELSE /\ b_pt' = Head(b_reader)
                   /\ b_reader' = Tail(b_reader)
                   /\ b_tuple_count' = b_tuple_count + 1
                   /\ UNCHANGED b_pc))
    /\ UNCHANGED <<b_input, b_lines, b_vocab, b_docids, b_num_docs, b_num_tuples,
                   b_tuples, b_sorted>>
    /\ UNCHANGED <<b_fv, b_featfile, b_fv_offsets, b_df, overflow_checks, codecVars, queryVars,
                   sortVars, lruVars, invVars, odVars>>

\* the loop of step 3 with the threshold of the source
ReduceTuple == ReduceTurn(CheckpointLimit)

\* step 3 after the loop: the tuple count is asserted, the inverted file saved
ReduceFinish ==
    /\ b_pc = "reduced"
    /\ \E order \in Orders(DOMAIN b_inv.cache.cache) :
         With(save(b_inv, b_inv_file, order), LAMBDA r :
           IF b_tuple_count # b_num_tuples
           THEN b_pc' = "panicked" /\ UNCHANGED <<b_inv, b_inv_file, b_off_file>>
           ELSE /\ b_inv' = r.inv
                /\ b_inv_file' = r.file
                /\ b_off_file' = r.off_file
                /\ b_pc' = IF r.panic THEN "panicked" ELSE "step4")
    /\ UNCHANGED <<b_input, b_lines, b_vocab, b_docids, b_num_docs, b_num_tuples,
                   b_tuples, b_sorted, b_reader, b_pt, b_current_intid, b_tuple_count>>
    /\ UNCHANGED <<b_fv, b_featfile, b_fv_offsets, b_df, overflow_checks, codecVars, queryVars,
                   sortVars, lruVars, invVars, odVars>>

NextBuild ==
    \/ MapLine
    \/ SortTuples
    \/ ReduceStart
    \/ ReduceTuple
    \/ ReduceFinish

SpecBuild == InitBuild /\ [][NextBuild]_vars

\* a threshold within reach of the inputs enumerated: more than half a posting
SmallLimit == 4

\* the loop of step 3 with the threshold scaled down to SmallLimit bytes
ReduceTupleSmall == ReduceTurn(U(SmallLimit))

NextCkpt ==
    \/ MapLine
    \/ SortTuples
    \/ ReduceStart
    \/ ReduceTupleSmall
    \/ ReduceFinish

\* the build with the scaled threshold, so that checkpoints are taken
SpecCkpt == InitBuild /\ [][NextCkpt]_vars

\* this step of step 3 called save() as a checkpoint (the save panicked or
\* wrote a file)
Checkpointed ==
    /\ b_pc = "reduce"
    /\ \/ b_pc' = "panicked"
       \/ b_inv_file' # b_inv_file
       \/ b_off_file' # b_off_file

\* C24: a checkpoint save() of step 3 is called only between the runs of two
\* tokids: when it is called the cache holds no posting of the token of the
\* tuple about to be added, so every list it writes is complete.
C24_CheckpointBetweenRuns ==
    [][Checkpointed => b_pt.tok \notin DOMAIN b_inv.cache.cache]_vars

\* C25: the postings passed to add_posting for one tokid have pairwise
\* different intids: every list in the cache is strictly ascending in doc_id
\* once sorted, so no docgap is 0.
C25_OnePostingPerPair ==
    \A tokid \in DOMAIN b_inv.cache.cache :
       \A i, j \in 1..Len(b_inv.cache.cache[tokid]) :
          i # j => b_inv.cache.cache[tokid][i].doc_id # b_inv.cache.cache[tokid][j].doc_id

\* the postings of tokid in the documents read: one for each line that holds
\* the token, with the intid of the line's docid and the token's count
PostingsOf(tokid) ==
    {[doc_id |-> U(b_docids.map[b_input[j].docid]),
      tf |-> U(token_map(b_input[j].tokens)[b_vocab.idx[tokid]])] :
        j \in {i \in 1..Len(b_input) :
                 b_vocab.idx[tokid] \in DOMAIN token_map(b_input[i].tokens)}}

\* C1: a map-reduce build over any input document sequence in which some
\* document has a token completes (it gets past step 3, which no behaviour
\* of SpecBuild does: the first offsets.insert(tokid, ..) of save finds an
\* empty vector and tokid >= 1), and then for every tokid of the vocabulary
\* get_posting_list(tokid) on the inverted file written returns exactly one
\* posting (intid, tf) for each document that contains the token, tf being
\* the count of the token in that document, and nothing else: as many
\* postings as documents with the token.
C1_BuildPostingLists ==
    (b_pc \in {"failed", "panicked", "step4"} /\ b_tuples # <<>>) =>
        /\ b_pc = "step4"
        /\ \A tokid \in 1..Len(b_vocab.idx) :
             With(get_posting_list(inv_open(b_off_file, 0), b_inv_file, tokid), LAMBDA r :
               /\ ~r.panic
               /\ {r.pl[i] : i \in 1..Len(r.pl)} = PostingsOf(tokid)
               /\ Len(r.pl) = Cardinality({i \in 1..Len(b_input) :
                     b_vocab.idx[tokid] \in DOMAIN token_map(b_input[i].tokens)}))

\* FeatureVec::new
fv_new(docid) == [docid |-> docid, features |-> <<>>, squared_norm |-> [sqrt_of |-> 0]]

RECURSIVE SumSquares(_)
SumSquares(features) ==
    IF features = <<>> THEN 0
    ELSE Head(features).value * Head(features).value + SumSquares(Tail(features))

\* FeatureVec::compute_norm: the square root of the sum of the squared
\* values, kept as its argument
compute_norm(fv) == [fv EXCEPT !.squared_norm = [sqrt_of |-> SumSquares(fv.features)]]

\* step 4, lines 132-136 and 152-156: the vector is finished and written, its
\* offset and its idf are recorded ([featfile, offsets, df]); an offset is
\* the number of vectors in the file before it, the idf is kept as the
\* arguments of (num_docs / num_features).log10()
write_fv(fv, intid, featfile, offsets, df) ==
    [featfile |-> Append(featfile, compute_norm(fv)),
     offsets |-> MapPut(offsets, intid, Len(featfile)),
     df |-> MapPut(df, intid, [log10_of |-> <<b_num_docs, Len(fv.features)>>])]

\* step 3 taken as done: step 4 reads none of the files step 3 writes
PassStep3 ==
    /\ b_pc = "step3"
    /\ b_pc' = "step4"
    /\ UNCHANGED <<b_input, b_lines, b_vocab, b_docids, b_num_docs, b_num_tuples,
                   b_tuples, b_sorted>>
    /\ UNCHANGED <<b_reader, b_pt, b_current_intid, b_tuple_count, b_inv, b_inv_file,
                   b_off_file, b_fv, b_featfile, b_fv_offsets, b_df, overflow_checks,
                   codecVars, queryVars, sortVars, lruVars, invVars, odVars>>

\* step 4 before the loop: the first tuple of the file "tuples" is decoded,
\* with ? on the error, and the vector of its document is begun
FvStart ==
    /\ b_pc = "step4"
    /\ IF b_tuples = <<>>
       THEN b_pc' = "failed" /\ UNCHANGED <<b_reader, b_pt, b_current_intid, b_fv>>
       ELSE With(get_key_for(b_docids, Head(b_tuples).docid), LAMBDA k :
              /\ b_pt' = Head(b_tuples)
              /\ b_reader' = Tail(b_tuples)
              /\ b_current_intid' = Head(b_tuples).docid
              /\ IF k.panic \/ k.key = <<>>
                 THEN b_pc' = "panicked" /\ UNCHANGED b_fv
                 ELSE b_pc' = "fv" /\ b_fv' = fv_new(k.key[1]))
    /\ UNCHANGED <<b_input, b_lines, b_vocab, b_docids, b_num_docs, b_num_tuples,
                   b_tuples, b_sorted, b_tuple_count, b_inv, b_inv_file, b_off_file,
                   b_featfile, b_fv_offsets, b_df>>
    /\ UNCHANGED <<overflow_checks, codecVars, queryVars, sortVars, lruVars, invVars, odVars>>

\* step 4, one turn of the loop: when the document changes the vector is
\* written and the next begun; the tuple is pushed; the next tuple or the break
FvTuple ==
    /\ b_pc = "fv"
    /\ With(IF b_pt.docid # b_current_intid
            THEN With(get_key_for(b_docids, b_pt.docid), LAMBDA k :
                   [panic |-> k.panic \/ k.key = <<>>,
                    fv |-> IF k.key = <<>> THEN b_fv ELSE fv_new(k.key[1]),
                    w |-> write_fv(b_fv, b_current_intid, b_featfile, b_fv_offsets, b_df)])
            ELSE [panic |-> FALSE, fv |-> b_fv,
                  w |-> [featfile |-> b_featfile, offsets |-> b_fv_offsets, df |-> b_df]],
            LAMBDA n :
         /\ b_featfile' = n.w.featfile
         /\ b_fv_offsets' = n.w.offsets
         /\ b_df' = n.w.df
         /\ b_current_intid' = b_pt.docid
         /\ IF n.panic
            THEN b_pc' = "panicked" /\ UNCHANGED <<b_fv, b_pt, b_reader>>
            ELSE /\ b_fv' = [n.fv EXCEPT !.features =
                                Append(@, [id |-> b_pt.tok, value |-> b_pt.count])]
                 /\ IF b_reader = <<>>
                    THEN b_pc' = "fv_last" /\ UNCHANGED <<b_pt, b_reader>>
                    ELSE /\ b_pt' = Head(b_reader)
                         /\ b_reader' = Tail(b_reader)
                         /\ UNCHANGED b_pc)
    /\ UNCHANGED <<b_input, b_lines, b_vocab, b_docids, b_num_docs, b_num_tuples,
                   b_tuples, b_sorted, b_tuple_count, b_inv, b_inv_file, b_off_file>>
    /\ UNCHANGED <<overflow_checks, codecVars, queryVars, sortVars, lruVars, invVars, odVars>>

\* step 4 after the loop: the last vector is written, the idf and fv_offsets
\* files and the configuration are written
FvFinish ==
    /\ b_pc = "fv_last"
    /\ With(write_fv(b_fv, b_current_intid, b_featfile, b_fv_offsets, b_df), LAMBDA w :
         /\ b_featfile' = w.featfile
         /\ b_fv_offsets' = w.offsets
         /\ b_df' = w.df)
    /\ b_pc' = "done"
    /\ UNCHANGED <<b_input, b_lines, b_vocab, b_docids, b_num_docs, b_num_tuples,
                   b_tuples, b_sorted, b_fv>>
    /\ UNCHANGED <<b_reader, b_pt, b_current_intid, b_tuple_count, b_inv, b_inv_file,
                   b_off_file, overflow_checks, codecVars, queryVars, sortVars, lruVars, invVars,
                   odVars>>

NextFv ==
    \/ MapLine
    \/ SortTuples
    \/ PassStep3
    \/ FvStart
    \/ FvTuple
    \/ FvFinish

\* steps 1, 2 and 4 of the build
SpecFv == InitBuild /\ [][NextFv]_vars

\* OnDiskCompressedHash::len
odch_len(h) == Len(h.idx)

\* the Config that build_mapred writes to config.toml at the end of step 4
store_config == [num_docs |-> odch_len(b_docids), num_features |-> odch_len(b_vocab)]

-----------------------------------------------------------------------------
(***************************************************************************)
(* bin/build_index.rs, the in-memory build.  The sled batches of DocsDb    *)
(* rewrite the keys add_doc inserted and are left out.                     *)
(***************************************************************************)
\* Dict::new
dict_new == [m |-> <<>>, df |-> <<>>, last_tokid |-> 1]

\* Dict::add_tok: [dict, tokid]
add_tok(dict, tok) ==
    IF tok \in DOMAIN dict.m THEN [dict |-> dict, tokid |-> dict.m[tok]]
    ELSE [dict |-> [dict EXCEPT !.last_tokid = @ + 1,
                                !.m = MapPut(dict.m, tok, dict.last_tokid + 1)],
          tokid |-> dict.last_tokid + 1]

\* Dict::incr_df
incr_df(dict, tokid) ==
    [dict EXCEPT !.df = MapPut(dict.df, tokid,
                               (IF tokid \in DOMAIN dict.df THEN dict.df[tokid] ELSE 0) + 1)]

\* the loop of tokenize_and_map over the tokens: [dict, m]
RECURSIVE tokenize_and_map(_, _, _)
tokenize_and_map(tokens, dict, m) ==
    IF tokens = <<>> THEN [dict |-> dict, m |-> m]
    ELSE With(add_tok(dict, Head(tokens)), LAMBDA a :
           tokenize_and_map(Tail(tokens),
               IF a.tokid \in DOMAIN m THEN a.dict ELSE incr_df(a.dict, a.tokid),
               MapPut(m, a.tokid, (IF a.tokid \in DOMAIN m THEN m[a.tokid] ELSE 0) + 1)))

\* DocsDb::add_doc: [docsdb, intid]
docsdb_add_doc(docsdb, docid) ==
    IF docid \in DOMAIN docsdb.ext2int
    THEN [docsdb |-> docsdb, intid |-> docsdb.ext2int[docid]]
    ELSE [docsdb |-> [ext2int |-> MapPut(docsdb.ext2int, docid, docsdb.next_intid),
                      next_intid |-> docsdb.next_intid + 1],
          intid |-> docsdb.next_intid]

\* the loop over docmap in the order given: [panic, inv, fv]
RECURSIVE index_docmap(_, _, _, _, _)
index_docmap(order, docmap, intid, iv, fv) ==
    IF order = <<>> THEN [panic |-> FALSE, inv |-> iv, fv |-> fv]
    ELSE With(inv_add_posting(iv, Head(order), U(intid), U(docmap[Head(order)])), LAMBDA a :
           IF a.panic THEN [panic |-> TRUE, inv |-> a.inv, fv |-> fv]
           ELSE index_docmap(Tail(order), docmap, intid, a.inv,
                    [fv EXCEPT !.features =
                        Append(@, [id |-> Head(order), value |-> docmap[Head(order)]])]))

InitMem ==
    /\ overflow_checks = FALSE
    /\ AtRest(BuildParts \cup (QueryParts \ {"mem"}))
    /\ mi_pc = "pass1"
    /\ mi_input \in LineSeqs(MaxDocs)
    /\ mi_lines = mi_input
    /\ mi_dict = dict_new
    /\ mi_docsdb = [ext2int |-> <<>>, next_intid |-> 1]
    /\ mi_num_docs = 0
    /\ mi_inv = inv_new
    /\ mi_featfile = <<>>
    /\ mi_idf = <<>>

\* the first pass, one line: tokenize, add the document, add its postings,
\* write its feature vector; num_docs is not assigned
MemLine ==
    /\ mi_pc = "pass1" /\ mi_lines # <<>>
    /\ With(tokenize_and_map(Head(mi_lines).tokens, mi_dict, <<>>), LAMBDA t :
       With(docsdb_add_doc(mi_docsdb, Head(mi_lines).docid), LAMBDA d :
         \E order \in Orders(DOMAIN t.m) :
           With(index_docmap(order, t.m, d.intid, mi_inv, fv_new(Head(mi_lines).docid)),
                LAMBDA r :
             /\ mi_dict' = t.dict
             /\ mi_docsdb' = d.docsdb
             /\ mi_inv' = r.inv
             /\ IF r.panic
                THEN mi_pc' = "panicked" /\ UNCHANGED mi_featfile
                ELSE mi_featfile' = Append(mi_featfile, r.fv) /\ UNCHANGED mi_pc)))
    /\ mi_lines' = Tail(mi_lines)
    /\ UNCHANGED <<mi_input, mi_num_docs, mi_idf>>
    /\ UNCHANGED <<overflow_checks, codecVars, sortVars, lruVars, invVars, odVars, buildVars,
                   clVars, scVars, webVars, faultVars, storeVars>>

\* the end of the first pass: invfile.save()
MemSave ==
    /\ mi_pc = "pass1" /\ mi_lines = <<>>
    /\ \E order \in Orders(DOMAIN mi_inv.cache.cache) :
         With(save(mi_inv, <<>>, order), LAMBDA r :
           /\ mi_inv' = r.inv
           /\ mi_pc' = IF r.panic THEN "panicked" ELSE "pass2")
    /\ UNCHANGED <<mi_input, mi_lines, mi_dict, mi_docsdb, mi_num_docs, mi_featfile, mi_idf>>
    /\ UNCHANGED <<overflow_checks, codecVars, sortVars, lruVars, invVars, odVars, buildVars,
                   clVars, scVars, webVars, faultVars, storeVars>>

\* the second pass: the idf of every tokid of the dictionary that has a df,
\* kept as the arguments of (num_docs / df).log10()
MemIdf ==
    /\ mi_pc = "pass2"
    /\ mi_idf' = [tokid \in {mi_dict.m[tok] : tok \in DOMAIN mi_dict.m} \cap DOMAIN mi_dict.df |->
                     [log10_of |-> <<mi_num_docs, mi_dict.df[tokid]>>]]
    /\ mi_dict' = [mi_dict EXCEPT !.m = <<>>]
    /\ mi_pc' = "done"
    /\ UNCHANGED <<mi_input, mi_lines, mi_docsdb, mi_num_docs, mi_inv, mi_featfile>>
    /\ UNCHANGED <<overflow_checks, codecVars, sortVars, lruVars, invVars, odVars, buildVars,
                   clVars, scVars, webVars, faultVars, storeVars>>

NextMem == MemLine \/ MemSave \/ MemIdf

\* either build, on any input
InitBuilds == InitBuild \/ InitMem

NextBuilds == NextFv \/ NextMem

SpecBuilds == InitBuilds /\ [][NextBuilds]_vars

\* the number of documents in the lines: the lines, or the distinct docids
NumIngested(input) == {Len(input), Cardinality({input[i].docid : i \in 1..Len(input)})}

\* C22: in both builds num_docs, and the num_docs written to the Store
\* configuration, is the number of documents ingested.
C22_NumDocsIsIngested ==
    /\ b_pc = "done" =>
          \E n \in NumIngested(b_input) : b_num_docs = n /\ store_config.num_docs = n
    /\ mi_pc \in {"pass2", "done"} => mi_num_docs \in NumIngested(mi_input)


\* Store::get_fv on the files written: [panic, fv]
get_fv(offsets, featfile, intid) ==
    IF intid \notin DOMAIN offsets \/ offsets[intid] + 1 > Len(featfile)
    THEN [panic |-> TRUE, fv |-> fv_new("")]
    ELSE [panic |-> FALSE, fv |-> featfile[offsets[intid] + 1]]

\* C9: a build of N >= 1 documents completes, and then every intid in 1..N
\* has an entry in fv_offsets, at which the feature vector file holds the
\* vector of that document: get_fv(intid) returns a vector whose docid the
\* docid map (as a Store opens it from the saved file) sends back to intid;
\* for any input, documents without tokens and repeated extids included.
C9_FvOffsetsComplete ==
    (b_pc \in {"failed", "panicked", "done"} /\ b_input # <<>>) =>
        /\ b_pc = "done"
        /\ \A intid \in 1..b_num_docs :
             /\ intid \in DOMAIN b_fv_offsets
             /\ ~get_fv(b_fv_offsets, b_featfile, intid).panic
             /\ get_idx_for(odch_open(b_docids.idx),
                            get_fv(b_fv_offsets, b_featfile, intid).fv.docid) = <<intid>>

\* step 4 on its own: when it has run to its end, every intid in 1..N has an
\* entry in fv_offsets.  Violated under SpecFv: a document without tokens
\* writes no tuple, so step 4 never sees its intid.
Step4_EveryIntidHasOffset ==
    b_pc = "done" => \A intid \in 1..b_num_docs : intid \in DOMAIN b_fv_offsets

\* step 4 on its own: when it has run to its end, the file holds one vector
\* for each intid.  Violated under SpecFv: no vector for a document without
\* tokens, two vectors for an extid on two lines that are not adjacent.
Step4_OneVectorPerIntid ==
    b_pc = "done" => Len(b_featfile) = Len(b_docids.idx)

\* step 4 on its own, for inputs where every document has a token and no
\* extid is repeated: the docid of the vector at fv_offsets[intid] is sent
\* back to intid by the docid map a Store loads.  Violated under SpecFv: the
\* map made by open numbers the keys from 0.
Step4_DocidMapsBack ==
    (b_pc = "done" /\ Len(b_featfile) = b_num_docs) =>
        \A intid \in 1..b_num_docs :
            get_idx_for(odch_open(b_docids.idx),
                        get_fv(b_fv_offsets, b_featfile, intid).fv.docid) = <<intid>>

-----------------------------------------------------------------------------
(***************************************************************************)
(* classifier.rs.  An f32 is kept as its class: a weight is "zero" or      *)
(* "nonzero"; scale is "one" (1.0), "mid" (at least MIN_SCALE, not 1.0) or *)
(* "low" (positive, below MIN_SCALE).  Where the class of a result depends *)
(* on the values, the operator returns every class the arithmetic can      *)
(* produce.  A FeatureVec is the set of its feature ids, w[i] of the       *)
(* source is w[i + 1] here.                                                *)
(***************************************************************************)

\* Classifier::new
classifier_new(dimensionality) ==
    [w |-> [i \in 1..(dimensionality + 1) |-> "zero"], scale |-> "one"]

\* SparseVector::from_vec: the indices and values of the non-zero entries
sv_from_vec(v) ==
    With(SelectSeq([i \in 1..Len(v) |-> i - 1], LAMBDA i : v[i + 1] # "zero"), LAMBDA idx :
      [idx |-> idx, val |-> [k \in 1..Len(idx) |-> v[idx[k] + 1]], length |-> Len(v)])

\* SparseVector::to_vec
sv_to_vec(sv) ==
    [i \in 1..sv.length |->
        IF \E k \in 1..Len(sv.idx) : sv.idx[k] = i - 1
        THEN sv.val[CHOOSE k \in 1..Len(sv.idx) : sv.idx[k] = i - 1]
        ELSE "zero"]

\* Classifier::inner_product panics: self.w[feat.id] with feat.id >= w.len()
inner_product_panics(c, x) == \E id \in x : id + 1 > Len(c.w)

scale_to_one_keeps_scale(c) == {c}

\* Classifier::scale_to_one: *wt *= self.scale leaves a zero weight zero (scale
\* is positive and finite) and may round a non-zero weight to zero
scale_to_one(c) ==
    IF c.scale = "one" THEN {c}
    ELSE {[w |-> v, scale |-> "one"] :
            v \in {u \in [DOMAIN c.w -> {"zero", "nonzero"}] :
                     \A i \in DOMAIN c.w : c.w[i] = "zero" => u[i] = "zero"}}

\* Classifier::scale_by, for a scaling_factor of at most 1: scale is left as it
\* is (scaling_factor <= 0, or a product that rounds to scale) or gets smaller
scale_by(c) ==
    UNION {{[c1 EXCEPT !.scale = product] :
              product \in IF c1.scale = "one" THEN {"one", "mid", "low"} ELSE {"mid", "low"}} :
           c1 \in IF c.scale = "low" THEN scale_to_one(c) ELSE {c}}

\* Classifier::add_vector: self.w[feat.id] += this_x_value / self.scale for the
\* features of x, which makes each of these weights zero or non-zero
add_vector(c, x) ==
    {[c EXCEPT !.w = v] :
       v \in {u \in [DOMAIN c.w -> {"zero", "nonzero"}] :
                \A i \in DOMAIN c.w : (i - 1) \notin x => u[i] = c.w[i]}}

MaxFeat == 2
MaxIters == 1

\* the feature vectors of the collection (of no feature, of the first feature,
\* of all features), and the lists of examples a qrels file can select
FeatureVecs == {{}, {1}, 1..MaxFeat}
ExampleSets == SUBSET FeatureVecs

InitTrain ==
    /\ overflow_checks = FALSE /\ AtRest(BuildParts \cup (QueryParts \ {"train"}))
    /\ cl_pc = "start"
    /\ \E num_toks \in 1..MaxFeat : cl = classifier_new(num_toks)
    /\ cl_pos = {} /\ cl_neg = {} /\ cl_ab = <<>> /\ cl_i = 0
    /\ cl_w0 = cl.w
    /\ cl_saved = FALSE

\* train_qrels up to the loop of Classifier::train: the model is the new one or
\* the one loaded from the model file, the examples are those of the qrels file
TrainQrels ==
    /\ cl_pc \in {"start", "done"}
    /\ \E pos \in ExampleSets, neg \in ExampleSets :
         With(IF ~cl_saved THEN cl
              ELSE [w |-> sv_to_vec(sv_from_vec(cl.w)), scale |-> cl.scale], LAMBDA model :
           /\ cl' = model
           /\ cl_w0' = model.w
           /\ cl_pos' = pos /\ cl_neg' = neg
           /\ cl_pc' = IF pos = {} \/ neg = {} THEN "panicked" ELSE "loop")
    /\ cl_i' = 0 /\ cl_ab' = <<>>
    /\ UNCHANGED cl_saved
    /\ UNCHANGED <<overflow_checks, codecVars, sortVars, lruVars, invVars, odVars, buildVars,
                   scVars, webVars, faultVars, memVars, storeVars>>

\* the loop of train: a and b are chosen, inner_product_on_difference
Sample ==
    /\ cl_pc = "loop" /\ cl_i < MaxIters
    /\ \E a \in cl_pos, b \in cl_neg :
         /\ cl_ab' = <<a, b>>
         /\ cl_pc' = IF inner_product_panics(cl, a) \/ inner_product_panics(cl, b)
                     THEN "panicked" ELSE "regularize"
    /\ UNCHANGED <<cl, cl_pos, cl_neg, cl_i, cl_w0, cl_saved>>
    /\ UNCHANGED <<overflow_checks, codecVars, sortVars, lruVars, invVars, odVars, buildVars,
                   scVars, webVars, faultVars, memVars, storeVars>>

\* the loop of train: scale_by(scaling_factor) or scale_by(MIN_SCALE)
Regularize ==
    /\ cl_pc = "regularize"
    /\ cl' \in scale_by(cl)
    /\ cl_pc' = "update"
    /\ UNCHANGED <<cl_pos, cl_neg, cl_ab, cl_i, cl_w0, cl_saved>>
    /\ UNCHANGED <<overflow_checks, codecVars, sortVars, lruVars, invVars, odVars, buildVars,
                   scVars, webVars, faultVars, memVars, storeVars>>

\* the loop of train: if loss != 0.0, add_vector(a, ..) and add_vector(b, ..)
Update ==
    /\ cl_pc = "update"
    /\ \/ UNCHANGED cl
       \/ \E c1 \in add_vector(cl, cl_ab[1]) : cl' \in add_vector(c1, cl_ab[2])
    /\ cl_pc' = "project"
    /\ UNCHANGED <<cl_pos, cl_neg, cl_ab, cl_i, cl_w0, cl_saved>>
    /\ UNCHANGED <<overflow_checks, codecVars, sortVars, lruVars, invVars, odVars, buildVars,
                   scVars, webVars, faultVars, memVars, storeVars>>

\* the loop of train: if projection_val < 1.0, scale_by(projection_val)
Project ==
    /\ cl_pc = "project"
    /\ \/ UNCHANGED cl
       \/ cl' \in scale_by(cl)
    /\ cl_pc' = "loop"
    /\ cl_i' = cl_i + 1
    /\ cl_ab' = <<>>
    /\ UNCHANGED <<cl_pos, cl_neg, cl_w0, cl_saved>>
    /\ UNCHANGED <<overflow_checks, codecVars, sortVars, lruVars, invVars, odVars, buildVars,
                   scVars, webVars, faultVars, memVars, storeVars>>

\* train after the loop: scale_to_one, the inner products of all examples;
\* then train_qrels saves the model
TrainFinish ==
    /\ cl_pc = "loop" /\ cl_i = MaxIters
    /\ cl' \in scale_to_one(cl)
    /\ cl_pc' = IF \E x \in cl_pos \cup cl_neg : inner_product_panics(cl, x)
                THEN "panicked" ELSE "done"
    /\ cl_saved' = (cl_saved \/ cl_pc' = "done")
    /\ UNCHANGED <<cl_pos, cl_neg, cl_ab, cl_i, cl_w0>>
    /\ UNCHANGED <<overflow_checks, codecVars, sortVars, lruVars, invVars, odVars, buildVars,
                   scVars, webVars, faultVars, memVars, storeVars>>

NextTrain ==
    \/ TrainQrels
    \/ Sample
    \/ Regularize
    \/ Update
    \/ Project
    \/ TrainFinish

SpecTrain == InitTrain /\ [][NextTrain]_vars

\* the feature ids of the examples of this call
InputIds == UNION (cl_pos \cup cl_neg)

\* C11 as stated: after a call of train with at least one positive and one
\* negative example, scale is 1.0 and every non-zero weight is at a feature id
\* of some example of the call.
C11_ScaleOneAndSupport ==
    cl_pc = "done" =>
        /\ cl.scale = "one"
        /\ \A i \in DOMAIN cl.w : cl.w[i] # "zero" => (i - 1) \in InputIds

\* C11 as amended: after a call of train that returns, scale is 1.0 and every
\* non-zero weight was non-zero when train was called or is at a feature id of
\* some example of the call.
C11_ScaleOneAndNewSupport ==
    cl_pc = "done" =>
        /\ cl.scale = "one"
        /\ \A i \in DOMAIN cl.w :
             cl.w[i] # "zero" => (cl_w0[i] # "zero" \/ (i - 1) \in InputIds)

\* a second call on a loaded model has returned: a weight of the first call is
\* still non-zero outside the examples, and a weight of an example is non-zero
C11_Witness ==
    /\ cl_pc = "done"
    /\ \E i \in DOMAIN cl.w : cl.w[i] # "zero" /\ (i - 1) \notin InputIds
    /\ \E i \in DOMAIN cl.w : cl.w[i] # "zero" /\ cl_w0[i] = "zero" /\ (i - 1) \in InputIds

\* C21: after the build the idf table has, for every tokid of the vocabulary,
\* the entry log10(N / df), N the number of documents and df the number of
\* documents that contain the token (two quotients are compared by their cross
\* products).
C21_IdfByTokid ==
    b_pc = "done" =>
       \A tokid \in 1..Len(b_vocab.idx) :
          /\ tokid \in DOMAIN b_df
          /\ b_df[tokid].log10_of[1] * Cardinality(PostingsOf(tokid))
                = b_df[tokid].log10_of[2] * Len(b_docids.idx)

-----------------------------------------------------------------------------
(***************************************************************************)
(* The two scorers: score_using_index (index.rs) and score_collection      *)
(* (main.rs), over the Store the builder wrote: the inverted file          *)
(* IndexOnDisk, the docid map and the feature vectors of the same          *)
(* documents.  Weights and term frequencies are small integers, which f32  *)
(* represents exactly, and the model's scale is 1.0 (as train leaves it).  *)
(***************************************************************************)
\* the documents of the Store: document d has the postings IndexOnDisk holds for it
NumDocs == NumToks

\* the docid map: StoreDocids[d] is the external docid of the document with intid d
StoreDocids == SubSeq(<<"a", "b", "c", "d", "e", "f">>, 1, NumDocs)

\* the feature vector of document d: one FeaturePair (tokid, tf) for each posting of d
StoreFv(d) ==
    [docid |-> StoreDocids[d],
     features |-> [k \in 1..Cardinality({t \in 1..NumToks : \E i \in 1..Len(IndexPostings(t)) :
                                            N(IndexPostings(t)[i].doc_id) = d}) |->
          With(CHOOSE t \in 1..NumToks :
                  /\ \E i \in 1..Len(IndexPostings(t)) : N(IndexPostings(t)[i].doc_id) = d
                  /\ Cardinality({u \in 1..(t - 1) : \E i \in 1..Len(IndexPostings(u)) :
                                      N(IndexPostings(u)[i].doc_id) = d}) = k - 1,
               LAMBDA t : [id |-> t,
                           value |-> N(IndexPostings(t)[CHOOSE i \in 1..Len(IndexPostings(t)) :
                                          N(IndexPostings(t)[i].doc_id) = d].tf)])]]

\* Store::pl_cache_size when the Store has no config file
PlCacheSize == 100000

RECURSIVE inner_product_loop(_, _)
inner_product_loop(w, features) ==
    IF features = <<>> THEN 0
    ELSE w[Head(features).id + 1] * Head(features).value + inner_product_loop(w, Tail(features))

\* Classifier::inner_product of a model of scale 1.0
inner_product(w, x) == inner_product_loop(w, x.features) * 1

Abs(x) == IF x < 0 THEN 0 - x ELSE x

\* slice::sort_by(|a, b| key(b).partial_cmp(&key(a))): a stable sort, descending
\* by key; key[i] is the key of v[i]
sort_by_desc(v, key) ==
    [p \in 1..Len(v) |-> v[CHOOSE i \in 1..Len(v) :
         Cardinality({j \in 1..Len(v) : \/ key[j] > key[i]
                                        \/ key[j] = key[i] /\ j < i}) = p - 1]]

\* the FeaturePairs of the non-zero weights, by decreasing absolute weight
model_query(w) ==
    With(SelectSeq([i \in 1..Len(w) |-> [id |-> i - 1, value |-> w[i]]],
                   LAMBDA f : f.value # 0),
         LAMBDA q : sort_by_desc(q, [i \in 1..Len(q) |-> Abs(q[i].value)]))

\* Store::get_doc_intid: <<intid>>, or <<>> for Err
get_doc_intid(docids, docid) == get_idx_for(docids, docid)

\* Store::get_docid: [panic, key]; key is <<docid>>, or <<>> for Err
get_docid(docids, intid) == get_key_for(docids, intid)

RECURSIVE accumulate_postings(_, _, _, _)
\* the loop over pl.postings: results with value * tf added for each posting not excluded
accumulate_postings(postings, value, exclude, results) ==
    IF postings = <<>> THEN results
    ELSE With(N(Head(postings).doc_id), LAMBDA doc_id :
           accumulate_postings(Tail(postings), value, exclude,
               IF doc_id \in exclude THEN results
               ELSE MapPut(results, doc_id,
                           (IF doc_id \in DOMAIN results THEN results[doc_id] ELSE 0)
                           + value * N(Head(postings).tf))))

RECURSIVE accumulate(_, _, _, _, _)
\* the loop over model_query: [panic, inv, results]
accumulate(query, iv, file, exclude, results) ==
    IF query = <<>> THEN [panic |-> FALSE, inv |-> iv, results |-> results]
    ELSE With(get_posting_list(iv, file, Head(query).id), LAMBDA r :
           IF r.panic THEN [panic |-> TRUE, inv |-> r.inv, results |-> results]
           ELSE accumulate(Tail(query), r.inv, file, exclude,
                           accumulate_postings(r.pl, Head(query).value, exclude, results)))

\* the Vec<DocScore> collected from the HashMap iterated in the given order, then sorted
results_to_rvec(docids, results, order) ==
    sort_by_desc([i \in 1..Len(order) |->
                     [docid |-> get_docid(docids, order[i]).key[1],
                      score |-> results[order[i]] * 1]],
                 [i \in 1..Len(order) |-> results[order[i]] * 1])

\* DocScore of main.rs: cmp reverses the order of the scores, partial_cmp reverses cmp
ds_lt(by, a, b) == IF by = "cmp" THEN a.score > b.score ELSE a.score < b.score

\* MinMaxHeap::pop_min: the heaps that can remain, a minimal element removed
pop_min(by, heap) == {heap \ {m} : m \in {x \in heap : \A y \in heap : ~ds_lt(by, y, x)}}

\* MinMaxHeap::into_vec_desc: the orders of the heap's elements that never ascend
into_vec_desc(by, heap) ==
    {o \in Orders(heap) : \A i \in 1..Len(o) : \A j \in (i + 1)..Len(o) : ~ds_lt(by, o[i], o[j])}

RECURSIVE scan(_, _, _, _, _)
\* the loop of score_collection over the feature vectors d..NumDocs: the heaps it can end with
scan(w, by, n, d, top_scores) ==
    IF d > NumDocs THEN {top_scores}
    ELSE With(top_scores \cup {[docid |-> StoreFv(d).docid, score |-> inner_product(w, StoreFv(d))]},
              LAMBDA pushed :
           UNION {scan(w, by, n, d + 1, h) :
                     h \in IF Cardinality(pushed) > n THEN pop_min(by, pushed) ELSE {pushed}})

MaxWeight == 1
MaxExcl == 1

\* the models to score with: no weight for tokid 0, which no token has
Models == {w \in [1..(NumToks + 1) -> (0 - MaxWeight)..MaxWeight] : w[1] = 0}

\* the exclude lists of a /score request; "z" is the docid of no document
Excludes == {e \in SUBSET ({StoreDocids[d] : d \in 1..NumDocs} \cup {"z"}) : Cardinality(e) <= MaxExcl}

InitScore ==
    /\ overflow_checks = FALSE
    /\ AtRest((BuildParts \ {"inv"}) \cup (QueryParts \ {"score"}))
    /\ inv_pc = "closed" /\ inv = inv_new /\ inv_file = IndexOnDisk.file
    /\ inv_hist = <<>> /\ inv_ret = <<>>
    /\ sc_pc = "start"
    /\ sc_w \in Models
    /\ sc_n \in 0..NumDocs
    /\ sc_excl \in Excludes
    /\ sc_by \in [push : {"cmp", "partial_cmp"}, desc : {"cmp", "partial_cmp"}]
    /\ sc_index = <<>>
    /\ sc_full = <<>>

ScoreUsingIndex ==
    /\ sc_pc = "start"
    /\ With(odch_open(StoreDocids), LAMBDA docids :
         IF \E docid \in sc_excl : get_doc_intid(docids, docid) = <<>>
         THEN sc_pc' = "failed" /\ UNCHANGED <<sc_index, invVars>>
         ELSE With(accumulate(model_query(sc_w),
                              IF model_query(sc_w) # <<>> /\ inv_pc = "closed"
                                  THEN inv_open(IndexOnDisk.offsets, PlCacheSize) ELSE inv,
                              inv_file,
                              {get_doc_intid(docids, docid)[1] : docid \in sc_excl},
                              <<>>),
                   LAMBDA acc :
                /\ inv' = acc.inv
                /\ inv_hist' = inv_hist \o [i \in 1..Len(model_query(sc_w)) |-> model_query(sc_w)[i].id]
                /\ UNCHANGED <<inv_file, inv_ret>>
                /\ IF \/ acc.panic
                      \/ \E k \in DOMAIN acc.results :
                            get_docid(docids, k).panic \/ get_docid(docids, k).key = <<>>
                   THEN /\ sc_pc' = "panicked"
                        /\ inv_pc' = IF acc.panic THEN "panicked" ELSE "open"
                        /\ UNCHANGED sc_index
                   ELSE /\ sc_pc' = "indexed"
                        /\ inv_pc' = IF model_query(sc_w) # <<>> THEN "open" ELSE inv_pc
                        /\ \E order \in Orders(DOMAIN acc.results) :
                              sc_index' = results_to_rvec(docids, acc.results, order)))
    /\ UNCHANGED <<sc_w, sc_n, sc_excl, sc_by, sc_full>>
    /\ UNCHANGED <<overflow_checks, codecVars, sortVars, lruVars, odVars, buildVars, clVars, webVars, faultVars, memVars, storeVars>>

ScoreCollection ==
    /\ sc_pc = "indexed"
    /\ sc_pc' = "done"
    /\ \E top_scores \in scan(sc_w, sc_by.push, sc_n, 1, {}) :
          sc_full' \in into_vec_desc(sc_by.desc, top_scores)
    /\ UNCHANGED <<sc_w, sc_n, sc_excl, sc_by, sc_index>>
    /\ UNCHANGED <<overflow_checks, codecVars, sortVars, lruVars, invVars, odVars, buildVars, clVars, webVars, faultVars, memVars, storeVars>>

NextScore == ScoreUsingIndex \/ ScoreCollection

SpecScore == InitScore /\ [][NextScore]_vars

\* the docids of a result list, in rank order
Docids(rvec) == [i \in 1..Len(rvec) |-> rvec[i].docid]

\* the first n elements of a result list, as the /score handler takes them
Take(rvec, n) == SubSeq(rvec, 1, IF n < Len(rvec) THEN n ELSE Len(rvec))

Descending(rvec) == \A i \in 1..Len(rvec) : \A j \in (i + 1)..Len(rvec) : rvec[i].score >= rvec[j].score

\* C12: with no document excluded, the first num_results documents of the index
\* scorer are the documents the full scan returns, in the same rank order.
C12_SameTopN ==
    (sc_pc = "done" /\ sc_excl = {}) => Docids(Take(sc_index, sc_n)) = Docids(sc_full)

\* C13: each scorer returns a list in descending order of score that has at most
\* num_results elements.
C13_DescendingAtMostN ==
    /\ sc_pc \in {"indexed", "done"} => Descending(sc_index) /\ Len(sc_index) <= sc_n
    /\ sc_pc = "done" => Descending(sc_full) /\ Len(sc_full) <= sc_n

\* C14: the list the index scorer returns holds no excluded document and holds
\* every other document that has a posting for a term of non-zero weight.
C14_ExcludedOutOthersIn ==
    sc_pc \in {"indexed", "done"} =>
       \A d \in 1..NumDocs :
          /\ StoreDocids[d] \in sc_excl => \A i \in 1..Len(sc_index) : sc_index[i].docid # StoreDocids[d]
          /\ (/\ StoreDocids[d] \notin sc_excl
              /\ \E k \in 1..Len(StoreFv(d).features) : sc_w[StoreFv(d).features[k].id + 1] # 0)
             => \E i \in 1..Len(sc_index) : sc_index[i].docid = StoreDocids[d]

\* C15: documents of equal score are listed by ascending intid.
C15_TiesByIntid ==
    sc_pc \in {"indexed", "done"} =>
       \A i \in 1..Len(sc_index) : \A j \in (i + 1)..Len(sc_index) :
          sc_index[i].score = sc_index[j].score =>
             \A di, dj \in 1..NumDocs :
                (StoreDocids[di] = sc_index[i].docid /\ StoreDocids[dj] = sc_index[j].docid) => di < dj

-----------------------------------------------------------------------------
(***************************************************************************)
(* store.rs: a Store opened on the directory of a build with the documents *)
(* StoreDocids and the tokens StoreVocab.  The feature vector file is a    *)
(* sequence of vectors and a reader's position the number of vectors       *)
(* behind it; every seek and every read ends on a vector boundary.         *)
(***************************************************************************)
MaxStoreOps == 3

\* the vocabulary: StoreVocab[t] is the token with tokid t
StoreVocab == SubSeq(<<"x", "y", "z", "u", "v", "w">>, 1, NumToks)

\* the file feature_vectors: the vector of document d is the d-th
StoreFeatfile == [d \in 1..NumDocs |-> StoreFv(d)]

\* the file fv_offsets
StoreFvOffsets == [d \in 1..NumDocs |-> d - 1]

\* Store::open: config.toml when there is one, the default otherwise
store_open(config_file) ==
    IF config_file
    THEN [num_docs |-> Len(StoreDocids), num_features |-> Len(StoreVocab),
          pl_cache_size |-> PlCacheSize]
    ELSE [num_docs |-> 0, num_features |-> 0, pl_cache_size |-> PlCacheSize]

\* Store::load_docinfo
load_docinfo(docids) == IF docids # <<>> THEN docids ELSE <<odch_open(StoreDocids)>>

\* Store::load_vocab
load_vocab(vocab) == IF vocab # <<>> THEN vocab ELSE <<odch_open(StoreVocab)>>

\* FeatureVecReader: the vectors next() yields until read_from fails at the end
fv_reader_items(pos) == SubSeq(StoreFeatfile, pos + 1, Len(StoreFeatfile))

\* Store::get_fv_iter: where the reader it returns starts, the file opened
\* only when the Store holds no handle
fv_iter_start(fvfile) == IF fvfile = <<>> THEN 0 ELSE fvfile[1]

InitStore ==
    /\ overflow_checks = FALSE
    /\ AtRest(BuildParts \cup (QueryParts \ {"store"}))
    /\ st_pc = "open"
    /\ st_config_file \in BOOLEAN
    /\ st_config = store_open(st_config_file)
    /\ st_fvfile = <<>>
    /\ st_docids = <<>>
    /\ st_vocab = <<>>
    /\ st_hist = <<>>
    /\ st_ret = <<>>

StoreGetFv ==
    /\ st_pc = "open" /\ Len(st_hist) < MaxStoreOps
    /\ \E intid \in 0..NumDocs :
         With(get_fv(StoreFvOffsets, StoreFeatfile, intid), LAMBDA r :
           /\ st_hist' = Append(st_hist, [op |-> "get_fv", arg |-> intid])
           /\ st_pc' = IF r.panic THEN "panicked" ELSE "open"
           /\ st_fvfile' = IF r.panic THEN <<0>> ELSE <<StoreFvOffsets[intid] + 1>>
           /\ st_ret' = IF r.panic THEN <<>> ELSE <<r.fv>>)
    /\ UNCHANGED <<st_config_file, st_config, st_docids, st_vocab>>
    /\ UNCHANGED <<overflow_checks, codecVars, sortVars, lruVars, invVars, odVars, buildVars,
                   clVars, scVars, webVars, faultVars, memVars>>

\* get_fv_iter, and the reader it returns read to its end
StoreGetFvIter ==
    /\ st_pc = "open" /\ Len(st_hist) < MaxStoreOps
    /\ st_hist' = Append(st_hist, [op |-> "get_fv_iter", arg |-> 0])
    /\ st_ret' = fv_reader_items(fv_iter_start(st_fvfile))
    /\ st_fvfile' = <<>>
    /\ UNCHANGED <<st_pc, st_config_file, st_config, st_docids, st_vocab>>
    /\ UNCHANGED <<overflow_checks, codecVars, sortVars, lruVars, invVars, odVars, buildVars,
                   clVars, scVars, webVars, faultVars, memVars>>

StoreGetDocIntid ==
    /\ st_pc = "open" /\ Len(st_hist) < MaxStoreOps
    /\ \E docid \in {StoreDocids[d] : d \in 1..NumDocs} \cup {"zz"} :
         /\ st_hist' = Append(st_hist, [op |-> "get_doc_intid", arg |-> docid])
         /\ st_docids' = load_docinfo(st_docids)
         /\ st_ret' = get_doc_intid(st_docids'[1], docid)
    /\ UNCHANGED <<st_pc, st_config_file, st_config, st_fvfile, st_vocab>>
    /\ UNCHANGED <<overflow_checks, codecVars, sortVars, lruVars, invVars, odVars, buildVars,
                   clVars, scVars, webVars, faultVars, memVars>>

StoreGetDocid ==
    /\ st_pc = "open" /\ Len(st_hist) < MaxStoreOps
    /\ \E intid \in 0..NumDocs :
         /\ st_hist' = Append(st_hist, [op |-> "get_docid", arg |-> intid])
         /\ st_docids' = load_docinfo(st_docids)
         /\ st_ret' = get_docid(st_docids'[1], intid).key
         /\ st_pc' = IF get_docid(st_docids'[1], intid).panic THEN "panicked" ELSE "open"
    /\ UNCHANGED <<st_config_file, st_config, st_fvfile, st_vocab>>
    /\ UNCHANGED <<overflow_checks, codecVars, sortVars, lruVars, invVars, odVars, buildVars,
                   clVars, scVars, webVars, faultVars, memVars>>

StoreGetTokid ==
    /\ st_pc = "open" /\ Len(st_hist) < MaxStoreOps
    /\ \E token \in {StoreVocab[t] : t \in 1..Len(StoreVocab)} \cup {"zz"} :
         /\ st_hist' = Append(st_hist, [op |-> "get_tokid", arg |-> token])
         /\ st_vocab' = load_vocab(st_vocab)
         /\ st_ret' = get_idx_for(st_vocab'[1], token)
    /\ UNCHANGED <<st_pc, st_config_file, st_config, st_fvfile, st_docids>>
    /\ UNCHANGED <<overflow_checks, codecVars, sortVars, lruVars, invVars, odVars, buildVars,
                   clVars, scVars, webVars, faultVars, memVars>>

\* num_docs(): the docid map is loaded, and its size taken, only when
\* config.num_docs is 0 and no docid map is loaded yet
StoreNumDocs ==
    /\ st_pc = "open" /\ Len(st_hist) < MaxStoreOps
    /\ st_hist' = Append(st_hist, [op |-> "num_docs", arg |-> 0])
    /\ IF st_config.num_docs = 0 /\ st_docids = <<>>
       THEN /\ st_docids' = load_docinfo(st_docids)
            /\ st_config' = [st_config EXCEPT !.num_docs = odch_len(st_docids'[1])]
       ELSE UNCHANGED <<st_docids, st_config>>
    /\ st_ret' = <<st_config'.num_docs>>
    /\ UNCHANGED <<st_pc, st_config_file, st_fvfile, st_vocab>>
    /\ UNCHANGED <<overflow_checks, codecVars, sortVars, lruVars, invVars, odVars, buildVars,
                   clVars, scVars, webVars, faultVars, memVars>>

\* num_features(): as num_docs(), on the vocabulary
StoreNumFeatures ==
    /\ st_pc = "open" /\ Len(st_hist) < MaxStoreOps
    /\ st_hist' = Append(st_hist, [op |-> "num_features", arg |-> 0])
    /\ IF st_config.num_features = 0 /\ st_vocab = <<>>
       THEN /\ st_vocab' = load_vocab(st_vocab)
            /\ st_config' = [st_config EXCEPT !.num_features = odch_len(st_vocab'[1])]
       ELSE UNCHANGED <<st_vocab, st_config>>
    /\ st_ret' = <<st_config'.num_features>>
    /\ UNCHANGED <<st_pc, st_config_file, st_fvfile, st_docids>>
    /\ UNCHANGED <<overflow_checks, codecVars, sortVars, lruVars, invVars, odVars, buildVars,
                   clVars, scVars, webVars, faultVars, memVars>>

NextStore ==
    \/ StoreGetFv
    \/ StoreGetFvIter
    \/ StoreGetDocIntid
    \/ StoreGetDocid
    \/ StoreGetTokid
    \/ StoreNumDocs
    \/ StoreNumFeatures

SpecStore == InitStore /\ [][NextStore]_vars

\* C26: whatever get_fv and get_fv_iter calls came before, the reader a call
\* of get_fv_iter returns yields every feature vector of the file once, in
\* file order from the first.
C26_IterFromStart ==
    (st_hist # <<>> /\ st_hist[Len(st_hist)].op = "get_fv_iter") => st_ret = StoreFeatfile

\* C29: on a Store without a config file num_docs() returns the size of the
\* docid map and num_features() the size of the vocabulary, whatever calls
\* came before.
C29_CountsFromMaps ==
    (~st_config_file /\ st_hist # <<>>) =>
       /\ st_hist[Len(st_hist)].op = "num_docs" => st_ret = <<Len(StoreDocids)>>
       /\ st_hist[Len(st_hist)].op = "num_features" => st_ret = <<Len(StoreVocab)>>

-----------------------------------------------------------------------------
(***************************************************************************)
(* bin/webcal.rs: the /train and /score handlers over the one Store of     *)
(* AppState.  A handler is a sequence of steps; the steps that reach the   *)
(* Store or the model file are named in Accessing.  A step that panics     *)
(* unwinds through the MutexGuard, which unlocks and poisons the mutex.    *)
(***************************************************************************)
NumReqs == 2

Reqs == 1..NumReqs

\* Mutex::lock returns when no other thread holds the mutex
lock_acquired_unheld(mutex) == TRUE

lock_acquired(mutex) == mutex.holder = 0

\* the steps of a handler after lock().unwrap(), in program order
HandlerSteps(kind) ==
    IF kind = "train"
    THEN <<"load_model", "read_examples", "train", "save_model", "respond">>
    ELSE <<"read_exclude", "load_model", "score_using_index", "respond">>

\* the steps that execute Store operations or read or write the model file
Accessing == {"load_model", "read_examples", "save_model", "score_using_index"}

\* the steps that can panic: an unwrap or expect on a file or Store result, the asserts of train
CanPanic == {"read_exclude", "load_model", "read_examples", "train", "score_using_index"}

StepAfter(kind, step) ==
    With(CHOOSE i \in 1..Len(HandlerSteps(kind)) : HandlerSteps(kind)[i] = step, LAMBDA i :
         IF i = Len(HandlerSteps(kind)) THEN "done" ELSE HandlerSteps(kind)[i + 1])

InitWeb ==
    /\ overflow_checks = FALSE
    /\ AtRest(BuildParts \cup (QueryParts \ {"web"}))
    /\ web_pc = [r \in Reqs |-> "idle"]
    /\ web_kind = [r \in Reqs |-> "train"]
    /\ web_mutex = [holder |-> 0, poisoned |-> FALSE]

\* a worker thread takes a request and enters its handler
WebRequest(r) ==
    /\ web_pc[r] \in {"idle", "done", "panicked"}
    /\ \E kind \in {"train", "score"} : web_kind' = [web_kind EXCEPT ![r] = kind]
    /\ web_pc' = [web_pc EXCEPT ![r] = "lock"]
    /\ UNCHANGED web_mutex
    /\ UNCHANGED <<overflow_checks, codecVars, sortVars, lruVars, invVars, odVars, buildVars,
                   clVars, scVars, faultVars, memVars, storeVars>>

\* state.coll.lock().unwrap()
WebLock(r) ==
    /\ web_pc[r] = "lock"
    /\ lock_acquired(web_mutex)
    /\ IF web_mutex.poisoned
       THEN web_pc' = [web_pc EXCEPT ![r] = "panicked"] /\ UNCHANGED web_mutex
       ELSE /\ web_pc' = [web_pc EXCEPT ![r] = HandlerSteps(web_kind[r])[1]]
            /\ web_mutex' = [web_mutex EXCEPT !.holder = r]
    /\ UNCHANGED web_kind
    /\ UNCHANGED <<overflow_checks, codecVars, sortVars, lruVars, invVars, odVars, buildVars,
                   clVars, scVars, faultVars, memVars, storeVars>>

\* one step of the handler returns; the guard is dropped after the last one
WebStep(r) ==
    /\ web_pc[r] \in {HandlerSteps(web_kind[r])[i] : i \in 1..Len(HandlerSteps(web_kind[r]))}
    /\ web_pc' = [web_pc EXCEPT ![r] = StepAfter(web_kind[r], web_pc[r])]
    /\ web_mutex' = IF web_pc'[r] = "done" /\ web_mutex.holder = r
                       THEN [web_mutex EXCEPT !.holder = 0] ELSE web_mutex
    /\ UNCHANGED web_kind
    /\ UNCHANGED <<overflow_checks, codecVars, sortVars, lruVars, invVars, odVars, buildVars,
                   clVars, scVars, faultVars, memVars, storeVars>>

\* one step of the handler panics: the guard is dropped while the thread is panicking
WebPanic(r) ==
    /\ web_pc[r] \in CanPanic
    /\ web_pc[r] \in {HandlerSteps(web_kind[r])[i] : i \in 1..Len(HandlerSteps(web_kind[r]))}
    /\ web_pc' = [web_pc EXCEPT ![r] = "panicked"]
    /\ web_mutex' = IF web_mutex.holder = r
                       THEN [holder |-> 0, poisoned |-> TRUE] ELSE web_mutex
    /\ UNCHANGED web_kind
    /\ UNCHANGED <<overflow_checks, codecVars, sortVars, lruVars, invVars, odVars, buildVars,
                   clVars, scVars, faultVars, memVars, storeVars>>

NextWeb == \E r \in Reqs : WebRequest(r) \/ WebLock(r) \/ WebStep(r) \/ WebPanic(r)

SpecWeb == InitWeb /\ [][NextWeb]_vars

\* C16: at most one request at a time is at a step that reaches the Store or the
\* model file, and a request at such a step, or between two of them, holds the mutex.
C16_OneRequestAtATime ==
    /\ \A r1, r2 \in Reqs : (web_pc[r1] \in Accessing /\ web_pc[r2] \in Accessing) => r1 = r2
    /\ \A r \in Reqs :
          web_pc[r] \in {HandlerSteps(web_kind[r])[i] : i \in 1..Len(HandlerSteps(web_kind[r]))}
             => web_mutex.holder = r

C16_Witness ==
    \E r1, r2 \in Reqs :
       /\ web_kind[r1] = "train" /\ web_pc[r1] = "save_model"
       /\ web_kind[r2] = "score" /\ web_pc[r2] = "lock"
       /\ web_mutex = [holder |-> r1, poisoned |-> FALSE]

\* C30: a request that fails in its handler leaves the mutex of the Store
\* unlocked and usable, and so every request that comes to lock() afterwards
\* enters its handler instead of failing at the lock.
C30_FailureLeavesStoreUsable ==
    [][\A r \in Reqs :
         /\ (web_pc[r] \in CanPanic /\ web_pc'[r] = "panicked")
               => (web_mutex'.holder = 0 /\ ~web_mutex'.poisoned)
         /\ (web_pc[r] = "lock" /\ web_pc'[r] # "lock")
               => web_pc'[r] = HandlerSteps(web_kind[r])[1]]_vars

-----------------------------------------------------------------------------
(***************************************************************************)
(* An InvertedFile made by new() that is filled by add_posting and saved.  *)
(* inv_hist records the calls.                                             *)
(***************************************************************************)
MaxAdds == 3
MaxAddId == 2
MaxAddTf == 1

InitAdd ==
    /\ overflow_checks = FALSE
    /\ AtRest((BuildParts \ {"inv"}) \cup QueryParts)
    /\ inv_pc = "new"
    /\ inv = inv_new
    /\ inv_file = <<>>
    /\ inv_hist = <<>>
    /\ inv_ret = <<>>

AddPosting ==
    /\ inv_pc = "new" /\ Len(inv_hist) < MaxAdds
    /\ \E tokid \in 0..MaxAddId, docid \in 0..MaxAddId, tf \in 0..MaxAddTf :
         With(inv_add_posting(inv, tokid, U(docid), U(tf)), LAMBDA r :
           /\ inv_hist' = Append(inv_hist, [op |-> "add_posting", tokid |-> tokid,
                                            docid |-> docid, tf |-> tf])
           /\ inv' = r.inv
           /\ inv_pc' = IF r.panic THEN "panicked" ELSE "new")
    /\ UNCHANGED <<inv_file, inv_ret>>
    /\ UNCHANGED <<overflow_checks, codecVars, queryVars, sortVars, lruVars, odVars, buildVars>>

\* save(), the cache iterated in any order (a panic leaves what was appended so far)
SaveIndex ==
    /\ inv_pc = "new" /\ Len(inv_hist) < MaxAdds
    /\ \E order \in Orders(DOMAIN inv.cache.cache) :
         With(save(inv, inv_file, order), LAMBDA r :
           /\ inv_hist' = Append(inv_hist, [op |-> "save"])
           /\ inv' = r.inv
           /\ inv_file' = r.file
           /\ inv_pc' = IF r.panic THEN "panicked" ELSE "new")
    /\ UNCHANGED inv_ret
    /\ UNCHANGED <<overflow_checks, codecVars, queryVars, sortVars, lruVars, odVars, buildVars>>

NextAdd == AddPosting \/ SaveIndex

SpecAdd == InitAdd /\ [][NextAdd]_vars

\* no posting list for tokid 0 and no posting with doc_id 0 or tf 0 in a list
ZeroFree(lists) ==
    /\ 0 \notin DOMAIN lists
    /\ \A tokid \in DOMAIN lists : \A i \in 1..Len(lists[tokid]) :
          lists[tokid][i].doc_id # U(0) /\ lists[tokid][i].tf # U(0)

\* the posting lists the offsets table locates in the inverted file
ListsOnDisk(offsets, file) ==
    [tokid \in {t \in 0..(Len(offsets) - 1) : offsets[t + 1].len > 0} |->
        deserialize(from_vec(SubSeq(file, offsets[tokid + 1].offset + 1,
                                    offsets[tokid + 1].offset + offsets[tokid + 1].len))).postings]

\* C20: a call of add_posting with tokid, docid or tf 0 panics and leaves the
\* inverted file object and the file as they were; after every call the cache
\* and the file hold no list for tokid 0 and no posting with doc_id 0 or tf 0.
C20_ZeroIsRejected ==
    [][/\ (/\ Len(inv_hist') = Len(inv_hist) + 1
           /\ inv_hist'[Len(inv_hist')].op = "add_posting"
           /\ \/ inv_hist'[Len(inv_hist')].tokid = 0
              \/ inv_hist'[Len(inv_hist')].docid = 0
              \/ inv_hist'[Len(inv_hist')].tf = 0)
          => (inv_pc' = "panicked" /\ inv' = inv /\ inv_file' = inv_file)
       /\ ZeroFree(inv'.cache.cache)
       /\ ZeroFree(ListsOnDisk(inv'.offsets, inv_file'))]_vars

C20_Witness ==
    /\ inv_pc = "panicked" /\ Len(inv_hist) = 2
    /\ inv_hist[1] = [op |-> "add_posting", tokid |-> 1, docid |-> 1, tf |-> 1]
    /\ inv_hist[2] = [op |-> "add_posting", tokid |-> 2, docid |-> 0, tf |-> 1]
    /\ DOMAIN inv.cache.cache = {1} /\ inv.cache_count = 1 /\ inv.pl_gets = 1

\* the postings the calls of add_posting recorded in hist passed for tokid
AddedFor(hist, tokid) ==
    {[doc_id |-> U(hist[i].docid), tf |-> U(hist[i].tf)] :
        i \in {k \in 1..Len(hist) : hist[k].op = "add_posting" /\ hist[k].tokid = tokid}}

\* C23: after postings were added to an InvertedFile from new() and save() was
\* called once, save() has returned and, for every tokid that was added,
\* offsets[tokid] locates in the file exactly the postings added for it,
\* whatever order the cache was iterated in.
C23_OffsetsLocateLists ==
    (/\ Len(inv_hist) >= 2
     /\ inv_hist[Len(inv_hist)].op = "save"
     /\ \A i \in 1..(Len(inv_hist) - 1) : inv_hist[i].op = "add_posting")
    => /\ inv_pc = "new"
       /\ \A i \in 1..(Len(inv_hist) - 1) :
             With(inv_hist[i].tokid, LAMBDA tokid :
               /\ tokid \in DOMAIN ListsOnDisk(inv.offsets, inv_file)
               /\ With(ListsOnDisk(inv.offsets, inv_file)[tokid], LAMBDA lst :
                    {lst[k] : k \in 1..Len(lst)} = AddedFor(inv_hist, tokid)))

\* the number of add_posting calls in hist after its last save
RECURSIVE AddsSinceSave(_)
AddsSinceSave(hist) ==
    IF hist = <<>> \/ hist[Len(hist)].op = "save" THEN 0
    ELSE 1 + AddsSinceSave(SubSeq(hist, 1, Len(hist) - 1))

\* C28: memusage() is the number of postings added since the last save()
\* times the size of a posting, and 0 right after a save().
C28_MemusageIsCacheSize ==
    /\ inv_pc = "new" =>
          /\ ~memusage(inv).ovf
          /\ memusage(inv).v = U(AddsSinceSave(inv_hist) * SizeOfPosting)
    /\ (inv_hist # <<>> /\ inv_hist[Len(inv_hist)].op = "save") =>
          /\ ~memusage(inv).ovf
          /\ memusage(inv).v = U(0)

-----------------------------------------------------------------------------
(***************************************************************************)
(* The codec harness: the calls of tests::test_vbyte, tests::test_magic    *)
(* and tests::test_posting_list on inputs drawn from bounded sets.         *)
(***************************************************************************)
MaxSmall == 40
MaxGap == 5
MaxFreq == 6
MaxPostings == 3

\* both halves around every length boundary of the vbyte code
VbyteSamples == {<<h, l>> : h \in {0, 1, 31, 32, 4095, 4096, 65535},
                            l \in {0, 1, 127, 128, 16383, 16384, 65535}}
                \cup {U(n) : n \in 0..MaxSmall}

\* 2^30 - 1, 2^30, 2^30 + 1, 2^32 - 1
GapSamples == {U(n) : n \in 1..MaxGap}
              \cup {<<16383, 65535>>, <<16384, 0>>, <<16384, 1>>, <<65535, 65535>>}
\* 2^32 - 2, 2^32 - 1
FreqSamples == {U(n) : n \in 1..MaxFreq} \cup {<<65535, 65534>>, <<65535, 65535>>}

PostingSamples ==
    {[doc_id |-> d, tf |-> t] : d \in {U(1), U(2), U(40), <<16383, 65535>>, <<16384, 0>>},
                                t \in {U(1), U(5)}}

\* the sequences of at most n postings with pairwise distinct doc_id
RECURSIVE DistinctPostingSeqs(_)
DistinctPostingSeqs(n) ==
    IF n = 0 THEN {<<>>}
    ELSE LET prev == DistinctPostingSeqs(n - 1)
         IN  prev \cup UNION {
                 {Append(s, q) : q \in {x \in PostingSamples :
                                         \A i \in 1..Len(s) : s[i].doc_id # x.doc_id}}
                 : s \in {t \in prev : Len(t) = n - 1}}

\* slack: what the buffer holds beyond the bytes needed
CodecInputs ==
    {[kind |-> "vbyte", value |-> v, freq |-> U(0), postings |-> <<>>, slack |-> 0]
        : v \in VbyteSamples}
    \cup {[kind |-> "magic", value |-> g, freq |-> f, postings |-> <<>>, slack |-> 0]
        : g \in GapSamples, f \in FreqSamples}
    \cup {[kind |-> "pl", value |-> U(0), freq |-> U(0), postings |-> ps, slack |-> k]
        : ps \in DistinctPostingSeqs(MaxPostings), k \in {0, 1}}

InitCodec ==
    /\ overflow_checks \in BOOLEAN
    /\ cin \in CodecInputs
    /\ cpc = "start"
    /\ cbuf = <<>>
    /\ cenc = [written |-> 0]
    /\ cdec = NoDec
    /\ pl = <<>>
    /\ mbuf = new_with_capacity(0)
    /\ pl2 = <<>>
    /\ AtRest(QueryParts \cup {"sort", "lru", "inv", "od", "build"})

VbyteEncode ==
    /\ cpc = "start" /\ cin.kind = "vbyte"
    /\ With(vbyte_encode(cin.value, cbuf), LAMBDA r :
         /\ cbuf' = r.buffer
         /\ cenc' = [written |-> r.written])
    /\ cpc' = "encoded"
    /\ UNCHANGED <<overflow_checks, cin, cdec, pl, mbuf, pl2>>
    /\ UNCHANGED <<queryVars, sortVars, lruVars, invVars, odVars, buildVars>>

VbyteDecode ==
    /\ cpc = "encoded" /\ cin.kind = "vbyte"
    /\ With(vbyte_decode(cbuf), LAMBDA r :
         /\ cbuf' = r.buffer
         /\ cdec' = [value |-> r.value, freq |-> U(0), bytes_read |-> r.bytes_read])
    /\ cpc' = "decoded"
    /\ UNCHANGED <<overflow_checks, cin, cenc, pl, mbuf, pl2>>
    /\ UNCHANGED <<queryVars, sortVars, lruVars, invVars, odVars, buildVars>>

MagicEncode ==
    /\ cpc = "start" /\ cin.kind = "magic"
    /\ With(encode_magic(cin.value, cin.freq, cbuf), LAMBDA r :
         /\ cbuf' = r.buffer
         /\ cenc' = [written |-> r.bytes]
         /\ cpc' = IF r.panic THEN "panicked" ELSE "encoded")
    /\ UNCHANGED <<overflow_checks, cin, cdec, pl, mbuf, pl2>>
    /\ UNCHANGED <<queryVars, sortVars, lruVars, invVars, odVars, buildVars>>

MagicDecode ==
    /\ cpc = "encoded" /\ cin.kind = "magic"
    /\ With(decode_magic(cbuf), LAMBDA r :
         /\ cbuf' = r.buffer
         /\ cdec' = [value |-> r.docgap, freq |-> r.freq, bytes_read |-> 0]
         /\ cpc' = IF r.panic THEN "panicked" ELSE "decoded")
    /\ UNCHANGED <<overflow_checks, cin, cenc, pl, mbuf, pl2>>
    /\ UNCHANGED <<queryVars, sortVars, lruVars, invVars, odVars, buildVars>>

\* pl.add_posting(d, tf) for the next posting of the input
PlAddPosting ==
    /\ cpc = "start" /\ cin.kind = "pl" /\ Len(pl) < Len(cin.postings)
    /\ With(add_posting_pl(pl, cin.postings[Len(pl) + 1].doc_id,
                            cin.postings[Len(pl) + 1].tf), LAMBDA r :
         /\ pl' = r.postings
         /\ cpc' = IF r.panic THEN "panicked" ELSE "start")
    /\ UNCHANGED <<overflow_checks, cin, cbuf, cenc, cdec, mbuf, pl2>>
    /\ UNCHANGED <<queryVars, sortVars, lruVars, invVars, odVars, buildVars>>

\* bytes_to_serialize, MagicEncodedBuffer::new_with_capacity, serialize_into:
\* index.rs lines 153-155 and 281-284
PlSerialize ==
    /\ cpc = "start" /\ cin.kind = "pl" /\ Len(pl) = Len(cin.postings)
    /\ With(bytes_to_serialize(pl), LAMBDA b :
         IF b.panic
         THEN /\ pl' = b.postings
              /\ cpc' = "panicked"
              /\ UNCHANGED <<mbuf, cenc>>
         ELSE With(serialize_into(b.postings, new_with_capacity(b.bytes + cin.slack)),
                   LAMBDA r :
              /\ pl' = r.postings
              /\ mbuf' = r.buf
              /\ cenc' = [written |-> b.bytes]
              /\ cpc' = IF r.panic THEN "panicked" ELSE "encoded"))
    /\ UNCHANGED <<overflow_checks, cin, cbuf, cdec, pl2>>
    /\ UNCHANGED <<queryVars, sortVars, lruVars, invVars, odVars, buildVars>>

PlDeserialize ==
    /\ cpc = "encoded" /\ cin.kind = "pl"
    /\ With(deserialize(mbuf), LAMBDA r :
         /\ pl2' = r.postings
         /\ mbuf' = r.buf
         /\ cpc' = IF r.panic THEN "panicked" ELSE "decoded")
    /\ UNCHANGED <<overflow_checks, cin, cbuf, cenc, cdec, pl>>
    /\ UNCHANGED <<queryVars, sortVars, lruVars, invVars, odVars, buildVars>>

NextCodec ==
    \/ VbyteEncode
    \/ VbyteDecode
    \/ MagicEncode
    \/ MagicDecode
    \/ PlAddPosting
    \/ PlSerialize
    \/ PlDeserialize

SpecCodec == InitCodec /\ [][NextCodec]_vars

-----------------------------------------------------------------------------
(***************************************************************************)
(* Properties of the codecs                                                *)
(***************************************************************************)
TwoPow30 == <<16384, 0>>
MaxU32 == <<65535, 65535>>

\* the vbyte length table: 1 below 2^7, 2 below 2^14, 3 below 2^21,
\* 4 below 2^28, else 5
VbyteLenTable(v) ==
    IF v[1] = 0 /\ v[2] < 128 THEN 1
    ELSE IF v[1] = 0 /\ v[2] < 16384 THEN 2
    ELSE IF v[1] < 32 THEN 3
    ELSE IF v[1] < 4096 THEN 4
    ELSE 5

\* C3: for every 32-bit v, vbyte_encode writes vbyte_bytes_required(v) bytes
\* (the length table), and vbyte_decode of these bytes returns v and
\* consumes exactly the bytes written.
C3_VbyteRoundTrip ==
    cin.kind = "vbyte" =>
        /\ cpc = "encoded" =>
              /\ Len(cbuf) = cenc.written
              /\ cenc.written = vbyte_bytes_required(cin.value)
              /\ cenc.written = VbyteLenTable(cin.value)
        /\ cpc = "decoded" =>
              /\ cdec.value = cin.value
              /\ cdec.bytes_read = cenc.written
              /\ cbuf = <<>>

C3_Witness ==
    /\ cin.kind = "vbyte" /\ cpc = "decoded"
    /\ cin.value = MaxU32 /\ cenc.written = 5 /\ cdec.value = MaxU32

\* the shape of the encoding of (g, tf): one vbyte v with v / 4 = g - 1 and
\* v % 4 = tf when tf < 4, else two vbytes, 4 * g and tf - 3
MagicShape(buffer, g, tf) ==
    With(vbyte_decode(buffer), LAMBDA d1 :
      IF ULt(tf, U(MAGIC_F))
      THEN /\ d1.buffer = <<>>
           /\ UAdd(UDiv(d1.value, MAGIC_F), U(1)).v = g
           /\ U(UMod(d1.value, MAGIC_F)) = tf
      ELSE With(vbyte_decode(d1.buffer), LAMBDA d2 :
           /\ d1.buffer # <<>> /\ d2.buffer = <<>>
           /\ UDiv(d1.value, MAGIC_F) = g /\ UMod(d1.value, MAGIC_F) = 0
           /\ UAdd(d2.value, U(3)).v = tf))

\* C4 as stated: for every docgap g >= 1 and tf >= 1 the encoder and the
\* decoder succeed and decode_magic(encode_magic(g, tf)) = (g, tf).
C4_MagicRoundTripAll ==
    cin.kind = "magic" =>
        /\ cpc # "panicked"
        /\ cpc = "decoded" => cdec.value = cin.value /\ cdec.freq = cin.freq

\* C4 amended: for 1 <= g < 2^30 and 1 <= tf < 2^32 - 1 the encoder and the
\* decoder succeed, the encoding is one vbyte of (g-1)*4 + tf when tf < 4
\* and the two vbytes g*4, tf-3 otherwise, and decoding it returns (g, tf).
C4_MagicRoundTrip ==
    (cin.kind = "magic" /\ ULt(cin.value, TwoPow30) /\ ULt(cin.freq, MaxU32)) =>
        /\ cpc # "panicked"
        /\ cpc = "encoded" => MagicShape(cbuf, cin.value, cin.freq)
        /\ cpc = "decoded" =>
              /\ cdec.value = cin.value /\ cdec.freq = cin.freq
              /\ cbuf = <<>>

C4_Witness ==
    /\ cin.kind = "magic" /\ cpc = "decoded" /\ overflow_checks
    /\ cin.value = <<16383, 65535>> /\ cin.freq = <<65535, 65534>>
    /\ cdec.value = cin.value /\ cdec.freq = cin.freq

\* the postings of ps in ascending doc_id order: the sequence that has the
\* elements of ps and ascends strictly
IsSortedCopy(out, ps) ==
    /\ Len(out) = Len(ps)
    /\ {out[i] : i \in 1..Len(out)} = {ps[i] : i \in 1..Len(ps)}
    /\ \A i \in 1..(Len(out) - 1) : ULt(out[i].doc_id, out[i + 1].doc_id)

\* C2 as stated: for postings with distinct intid > 0 and tf > 0, added in
\* any order, serialize_into then deserialize succeeds and returns the
\* postings sorted by ascending intid.
C2_PostingListRoundTripAll ==
    cin.kind = "pl" =>
        /\ cpc # "panicked"
        /\ cpc = "decoded" => IsSortedCopy(pl2, cin.postings)

\* C2 amended: the same for postings whose intids are all below 2^30 and
\* whose tf are below 2^32 - 1.
C2_PostingListRoundTrip ==
    (/\ cin.kind = "pl"
     /\ \A i \in 1..Len(cin.postings) :
           /\ ULt(cin.postings[i].doc_id, TwoPow30)
           /\ ULt(cin.postings[i].tf, MaxU32)) =>
        /\ cpc # "panicked"
        /\ cpc = "encoded" => mbuf.index = cenc.written
        /\ cpc = "decoded" => IsSortedCopy(pl2, cin.postings) /\ pl2 = pl

C2_Witness ==
    /\ cin.kind = "pl" /\ cpc = "decoded"
    /\ Len(cin.postings) = 3
    /\ cin.postings[1].doc_id = <<16383, 65535>>
    /\ cin.postings[2].doc_id = U(40)
    /\ pl2[3].doc_id = <<16383, 65535>> /\ pl2[3].tf = cin.postings[1].tf

=============================================================================
